---- MODULE Spec2Model ----
(***************************************************************************)
(* Model of the GM812 scanner firmware (ESP32-S3-ETH/ScanOnly/ScanOnly.ino) *)
(*                                                                         *)
(* Three execution contexts share the state: the scanner task              *)
(* (scannerTask), the network task (networkTask) and the task that runs    *)
(* the driver event callback (WiFiEvent).  Each is a program counter in    *)
(* pc; a step of a task is the code between two points where another task  *)
(* can observe or influence it (a mutex take or give, a read of            *)
(* networkConnected, a delay, an HTTP request).                            *)
(*                                                                         *)
(* Bytes are integers 0..255, strings are sequences.  The array sizes of   *)
(* the firmware (512, 256, 200) are scaled down to the sizes named below;  *)
(* every comparison against them is written as in the source.              *)
(***************************************************************************)
EXTENDS Integers, Sequences, FiniteSets, TLC

(***************************************************************************)
(* Sizes (scaled) and program constants                                    *)
(***************************************************************************)
\* sizeof(rawBuffer), 512 in the source
RawBufferSize == 10
\* sizeof(localBuffer) in processBarcode: the size of rawBuffer
LocalBufferSize == RawBufferSize
\* sizeof(barcodeBuffer) in processBarcode, 256 in the source
BarcodeBufferSize == 8
\* sizeof(barcodeData.data), 256 in the source
BarcodeDataSize == 8
\* MAX_ERROR_LENGTH, 200 in the source
MaxErrorLength == 6

SetupDelay == 1000               \* delay(1000) in setup()
BARCODE_TIMEOUT == 100
MAIN_LOOP_DELAY == 10
SCANNER_INACTIVITY_THRESHOLD == 300000
MAX_FAILED_HEARTBEATS == 5
ETH_CONNECT_TIMEOUT == 30000
HEARTBEAT_INTERVAL == 30000
StatusCheckInterval == 15000     \* currentTime - lastNetworkStatusCheck > 15000
HttpTimeout == 10000             \* http.setTimeout(10000)
WdtTimeout == 60000              \* wdt_config.timeout_ms
NetworkLoopDelay == 100          \* vTaskDelay(100 / portTICK_PERIOD_MS)
LinkPollDelay == 500             \* delay(500) in initEthernet
ResetPulse == 100                \* delay(100) in resetEthernet

\* the longest input script drawn over SmallBytes
MaxScriptLen == 3
\* the clock stops advancing here
MaxTime == 302500
\* the number of pauses inside one script
MaxGaps == 1
\* NETWORK_WATCHDOG_TIMEOUT, 15 * 60 * 1000 in the source
NetworkWatchdogTimeout == 45000
\* the network task is followed up to this time
MaxNetTime == 95000
\* payloads published while the network task is followed
MaxPublishes == 1
\* changes of the link state followed
MaxLinkChanges == 2
\* hardware resets followed
MaxResets == 2
\* the longest argument urlEncode is called with
MaxEncodeLen == 2
\* the three tasks together are followed up to this time
MaxSysTime == 110000

Tasks == {"scanner", "network", "event"}
Mutexes == {"serialMutex", "bufferMutex", "errorMutex", "barcodeMutex"}
NoTask == "none"

(***************************************************************************)
(* Sequences                                                               *)
(***************************************************************************)
Take(s, n) == SubSeq(s, 1, IF n < Len(s) THEN n ELSE Len(s))
Drop(s, n) == SubSeq(s, n + 1, Len(s))
Min(a, b) == IF a < b THEN a ELSE b

RECURSIVE SeqsUpTo(_, _)
SeqsUpTo(S, n) ==
  IF n = 0 THEN {<<>>}
  ELSE LET shorter == SeqsUpTo(S, n - 1)
       IN shorter \cup {Append(s, x) : s \in {t \in shorter : Len(t) = n - 1}, x \in S}

Repeat(x, n) == [i \in 1..n |-> x]

(***************************************************************************)
(* processBarcode: classification and extraction (pure part)               *)
(***************************************************************************)
\* mutant: the lower limit of the printable range taken at the carriage return
Printable_FromCR(c) == c >= 13 /\ c <= 126

\* if (c >= 32 && c <= 126)
Printable(c) == c >= 32 /\ c <= 126

\* mutant: the second marker byte compared against the wrong value
IsProtocolMessage_WrongMarker(msg) == Len(msg) > 2 /\ msg[1] = 2 /\ msg[2] = 2

\* localBufferSize > 2 && localBuffer[0] == 0x02 && localBuffer[1] == 0x00
IsProtocolMessage(msg) == Len(msg) > 2 /\ msg[1] = 2 /\ msg[2] = 0

\* the loop over localBuffer that appends each printable byte to barcodeBuffer
RECURSIVE ExtractPrintable(_)
ExtractPrintable(msg) ==
  IF msg = <<>> THEN <<>>
  ELSE IF Printable(Head(msg)) THEN <<Head(msg)>> \o ExtractPrintable(Tail(msg))
       ELSE ExtractPrintable(Tail(msg))

\* barcodeBuffer[barcodeLen++] = c and barcodeBuffer[barcodeLen] = '\0' stay
\* inside barcodeBuffer only while barcodeLen < sizeof(barcodeBuffer)
ExtractionInBounds(msg) == Len(ExtractPrintable(msg)) < BarcodeBufferSize

\* strncpy(barcodeData.data, barcodeBuffer, sizeof(barcodeData.data) - 1) with
\* the terminator written at the last index
StrncpyData(buf) == Take(buf, BarcodeDataSize - 1)

(***************************************************************************)
(* urlEncode                                                               *)
(***************************************************************************)
\* isAlphaNumeric(c)
IsAlphaNumeric(c) ==
  \/ c >= 48 /\ c <= 57
  \/ c >= 65 /\ c <= 90
  \/ c >= 97 /\ c <= 122

\* isAlphaNumeric(c) || c == '-' || c == '_' || c == '.' || c == '~'
PassesThrough(c) == IsAlphaNumeric(c) \/ c \in {45, 95, 46, 126}

\* one digit as itoa writes it: '0'..'9', 'a'..'f'
HexDigit(d) == IF d < 10 THEN 48 + d ELSE 87 + d

\* String(c, HEX): the value in base 16, lower case, without leading zeros
StringHex(c) ==
  IF c < 16 THEN <<HexDigit(c)>> ELSE <<HexDigit(c \div 16), HexDigit(c % 16)>>

\* the body of the loop: encodedString += c, or += '%' and += String(c, HEX)
EncodeByte(c) == IF PassesThrough(c) THEN <<c>> ELSE <<37>> \o StringHex(c)

RECURSIVE urlEncode(_)
urlEncode(str) ==
  IF str = <<>> THEN <<>> ELSE EncodeByte(Head(str)) \o urlEncode(Tail(str))

(***************************************************************************)
(* recordError: the text appended to pendingErrorMessages                  *)
(***************************************************************************)
\* snprintf(formattedError, MAX_ERROR_LENGTH, "[%lu] %s", ...): at most
\* MAX_ERROR_LENGTH - 1 characters are kept
FormattedError(msg) == Take(msg, MaxErrorLength - 1)

\* mutant: the queue is never cut back to the cap
AppendError_NoTruncate(pending, msg) ==
  (IF Len(pending) > 0 THEN pending \o <<";", " ">> ELSE pending) \o FormattedError(msg)

\* mutant: the cut removes the oldest characters and keeps the newest
AppendError_KeepNewest(pending, msg) ==
  LET sep    == IF Len(pending) > 0 THEN pending \o <<";", " ">> ELSE pending
      joined == sep \o FormattedError(msg)
  IN IF Len(joined) > MaxErrorLength
       THEN <<".", ".", ".">> \o SubSeq(joined, Len(joined) - MaxErrorLength + 4, Len(joined))
       ELSE joined

\* the separator, the append and the cut to MAX_ERROR_LENGTH - 3 characters
\* followed by "..."
AppendError(pending, msg) ==
  LET sep    == IF Len(pending) > 0 THEN pending \o <<";", " ">> ELSE pending
      joined == sep \o FormattedError(msg)
  IN IF Len(joined) > MaxErrorLength
       THEN SubSeq(joined, 1, MaxErrorLength - 3) \o <<".", ".", ".">>
       ELSE joined

(***************************************************************************)
(* State                                                                   *)
(***************************************************************************)
VARIABLES
  now,                       \* millis()
  script,                    \* history: everything the scanner module sends
  feed,                      \* bytes the scanner module will still send
  uart,                      \* bytes received by the UART, not yet read
  lastArrival,               \* history: time the last byte reached the UART
  gapExceeded,               \* history: two arrivals were more than BARCODE_TIMEOUT apart
  gaps,                      \* history: number of arrivals that followed a pause
  pc,                        \* position of each task
  stack,                     \* return positions of each task's calls
  errArg,                    \* argument of each task's recordError call
  mutex,                     \* owner of each mutex
  rawBuffer,                 \* rawBuffer[0 .. bufferIndex-1]
  lastDataTime,
  newDataAvailable,
  localBuffer,               \* processBarcode's copy
  barcodeBuffer,             \* processBarcode's extraction
  barcodeLen,
  stackSmashed,              \* processBarcode wrote past the end of barcodeBuffer
  lastScannerActivity,
  scannerInactivityReported,
  scWake,                    \* end of the scanner task's vTaskDelay
  barcodeData,               \* [data, length, newData]
  pendingErrorMessages,
  flushLog,                  \* history: the messages flushed, in order
  publishLog,                \* history: the payloads published, in order
  drained,                   \* history: newData has been cleared by the network task
  networkConnected,
  consecutiveFailedHeartbeats,
  lastSuccessfulHeartbeat,
  lastNetworkActivity,
  currentTime,               \* networkTask's local
  lastHeartbeatTime,         \* networkTask's local
  lastNetworkStatusCheck,    \* networkTask's local
  startTime,                 \* initEthernet's local
  httpResponseCode,          \* local of sendHeartbeat / sendBarcodeData
  hbSuccess,                 \* value returned by sendHeartbeat
  errorMessages,             \* sendHeartbeat's local copy of the queue
  putData,                   \* payload of the request sendBarcodeData has built
  trigger,                   \* which remedy of the supervision pass is running
  ntWake,                    \* end of the network task's delay or request timeout
  wdtArmed,                  \* esp_task_wdt_add done
  wdtFed,                    \* time of the last esp_task_wdt_reset
  ethStarted,                \* ETH.begin has succeeded
  hwResets,                  \* history: pulses on the W5500 reset pin
  sinceReset,                \* history: what the network task has done since the last pulse
  linkChanges,               \* history: changes of the link state
  encodeArg,                 \* urlEncode's argument str, when it is checked on its own
  encodedString,             \* urlEncode's result
  simPhase,                  \* simulate-node: "off", "listening" or "failed"
  qrLog,                     \* simulate-node: the entries of data/qrcodes.log
  lastApiCall,               \* simulate-node: the record kept by recordApiCall
  simReplies                 \* history: each request sent to the simulator and its answer

envVars   == <<now, script, feed, uart, lastArrival, gapExceeded, gaps>>
ctlVars   == <<pc, stack, errArg, mutex>>
scanVars  == <<rawBuffer, lastDataTime, newDataAvailable, localBuffer, barcodeBuffer,
               barcodeLen, stackSmashed, lastScannerActivity,
               scannerInactivityReported, scWake>>
boxVars   == <<barcodeData, drained>>
errVars   == <<pendingErrorMessages>>
histVars  == <<flushLog, publishLog, sinceReset>>
linkVars  == <<networkConnected, ethStarted, linkChanges>>
hbVars    == <<consecutiveFailedHeartbeats, lastSuccessfulHeartbeat, lastNetworkActivity>>
loopVars  == <<currentTime, lastHeartbeatTime, lastNetworkStatusCheck, startTime, trigger>>
httpVars  == <<httpResponseCode, hbSuccess, errorMessages, putData>>
wdtVars   == <<ntWake, wdtArmed, wdtFed, hwResets>>
netVars   == <<linkVars, hbVars, loopVars, httpVars, wdtVars>>
simVars   == <<simPhase, qrLog, lastApiCall, simReplies>>
\* the variables of the parts that are followed on their own
encVars   == <<encodeArg, encodedString, simVars>>
vars == <<envVars, ctlVars, scanVars, boxVars, errVars, histVars, netVars, encVars>>

bufferIndex == Len(rawBuffer)

Free(m) == mutex[m] = NoTask
Holds(t, m) == mutex[m] = t
TakeMutex(t, m) == [mutex EXCEPT ![m] = t]
GiveMutex(m) == [mutex EXCEPT ![m] = NoTask]
Goto(t, l) == [pc EXCEPT ![t] = l]

(***************************************************************************)
(* Inputs                                                                  *)
(***************************************************************************)
SmallBytes == {0, 2, 65}
\* "ABC123\r"
ScenarioA == <<65, 66, 67, 49, 50, 51, 13>>
\* 0x02 0x00 0x01 0x00 0x33 0x31
ScenarioB == <<2, 0, 1, 0, 51, 49>>
LongScripts ==
  {Repeat(65, n) : n \in {BarcodeBufferSize - 1, BarcodeBufferSize, RawBufferSize + 1}}
    \cup {<<2, 0>> \o Repeat(65, RawBufferSize - 3)}
    \cup {<<13>> \o Repeat(66, BarcodeBufferSize)}
    \cup {<<65, 2, 0, 65>>}
Scripts == SeqsUpTo(SmallBytes, MaxScriptLen) \cup {ScenarioA, ScenarioB} \cup LongScripts

\* the contents barcodeBuffer may be read back with after a write past its end
SmashedContents(msg) == {ExtractPrintable(msg), <<>>, <<63>>}

\* a query parameter that is not in the URL (undefined)
NoData == <<-1>>

\* lastApiCall before any call: every field null
NoApiCall == [endpoint |-> "null", data |-> NoData]

(***************************************************************************)
(* Initial state: the globals' initialisers and setup()                    *)
(***************************************************************************)
InitCommon ==
  /\ now = SetupDelay
  /\ uart = <<>>
  /\ lastArrival = 0
  /\ gapExceeded = FALSE
  /\ gaps = 0
  /\ pc = [t \in Tasks |-> CASE t = "scanner" -> "sc_start"
                             [] t = "network" -> "nt_start"
                             [] OTHER -> "ev_idle"]
  /\ stack = [t \in Tasks |-> <<>>]
  /\ errArg = [t \in Tasks |-> <<>>]
  /\ mutex = [m \in Mutexes |-> NoTask]
  /\ rawBuffer = <<>>
  /\ lastDataTime = 0
  /\ newDataAvailable = FALSE
  /\ localBuffer = <<>>
  /\ barcodeBuffer = <<>>
  /\ barcodeLen = 0
  /\ stackSmashed = FALSE
  /\ lastScannerActivity = 0
  /\ scannerInactivityReported = FALSE
  /\ scWake = 0
  /\ barcodeData = [data |-> <<>>, length |-> 0, newData |-> FALSE]
  /\ drained = FALSE
  \* setup(): recordError("System started ...")
  /\ pendingErrorMessages = AppendError(<<>>, <<"S">>)
  /\ flushLog = <<>>
  /\ publishLog = <<>>
  /\ sinceReset = "boot"
  /\ networkConnected = FALSE
  /\ consecutiveFailedHeartbeats = 0
  /\ lastSuccessfulHeartbeat = 0
  /\ lastNetworkActivity = 0
  /\ currentTime = 0
  /\ lastHeartbeatTime = 0
  /\ lastNetworkStatusCheck = 0
  /\ startTime = 0
  /\ httpResponseCode = 0
  /\ hbSuccess = FALSE
  /\ errorMessages = <<>>
  /\ putData = <<>>
  /\ trigger = "none"
  /\ ntWake = 0
  /\ wdtArmed = FALSE
  /\ wdtFed = 0
  /\ ethStarted = FALSE
  /\ hwResets = 0
  /\ linkChanges = 0
  \* the collector simulator is a separate program; it has not been started
  /\ simPhase = "off"
  /\ qrLog = <<>>
  /\ lastApiCall = NoApiCall
  /\ simReplies = <<>>

(***************************************************************************)
(* The scanner module and the UART                                         *)
(***************************************************************************)
\* one more byte of the script reaches the UART
UartArrive ==
  /\ feed # <<>>
  /\ uart' = Append(uart, Head(feed))
  /\ feed' = Tail(feed)
  /\ lastArrival' = now
  /\ gapExceeded' = (gapExceeded \/ (feed # script /\ now - lastArrival > BARCODE_TIMEOUT))
  /\ gaps' = IF feed # script /\ now > lastArrival THEN gaps + 1 ELSE gaps
  /\ gaps' <= MaxGaps
  /\ UNCHANGED <<encVars, netVars, now, script, ctlVars, scanVars, boxVars, errVars, histVars>>

(***************************************************************************)
(* recordError(errorMessage), run by task t                                *)
(***************************************************************************)
CallRecordError(t, msg, ret) ==
  /\ pc' = Goto(t, "re_take_error")
  /\ stack' = [stack EXCEPT ![t] = <<ret>> \o @]
  /\ errArg' = [errArg EXCEPT ![t] = msg]

\* xSemaphoreTake(errorMutex) and the update of pendingErrorMessages
ReAppend(t) ==
  /\ pc[t] = "re_take_error"
  /\ Free("errorMutex")
  /\ mutex' = TakeMutex(t, "errorMutex")
  /\ pendingErrorMessages' = AppendError(pendingErrorMessages, errArg[t])
  /\ pc' = Goto(t, "re_give_error")
  /\ UNCHANGED <<encVars, netVars, envVars, stack, errArg, scanVars, boxVars, histVars>>

ReGiveError(t) ==
  /\ pc[t] = "re_give_error"
  /\ mutex' = GiveMutex("errorMutex")
  /\ pc' = Goto(t, "re_take_serial")
  /\ UNCHANGED <<encVars, netVars, envVars, stack, errArg, scanVars, boxVars, errVars, histVars>>

\* xSemaphoreTake(serialMutex), the two prints, xSemaphoreGive, return
ReLog(t) ==
  /\ pc[t] = "re_take_serial"
  /\ Free("serialMutex")
  /\ pc' = Goto(t, Head(stack[t]))
  /\ stack' = [stack EXCEPT ![t] = Tail(@)]
  /\ errArg' = [errArg EXCEPT ![t] = <<>>]
  /\ UNCHANGED <<encVars, netVars, envVars, mutex, scanVars, boxVars, errVars, histVars>>

RecordErrorStep(t) == ReAppend(t) \/ ReGiveError(t) \/ ReLog(t)

(***************************************************************************)
(* scannerTask                                                             *)
(***************************************************************************)
\* the task's first lines: its console line under serialMutex, and
\* lastScannerActivity = millis()
ScStart ==
  /\ pc["scanner"] = "sc_start"
  /\ Free("serialMutex")
  /\ lastScannerActivity' = now
  /\ pc' = Goto("scanner", "sc_loop")
  /\ UNCHANGED <<encVars, netVars, envVars, stack, errArg, mutex, rawBuffer, lastDataTime,
                 newDataAvailable, localBuffer, barcodeBuffer, barcodeLen, stackSmashed,
                 scannerInactivityReported, scWake, boxVars, errVars, histVars>>

\* if (SCANNER_SERIAL.available() > 0)
ScLoop ==
  /\ pc["scanner"] = "sc_loop"
  /\ pc' = Goto("scanner", IF Len(uart) > 0 THEN "sc_take_buf" ELSE "sc_flush_check")
  /\ UNCHANGED <<encVars, netVars, envVars, stack, errArg, mutex, scanVars, boxVars, errVars, histVars>>

\* mutant: the read loop takes every byte, whatever the room left in rawBuffer
ScRead_NoLimit ==
  /\ pc["scanner"] = "sc_take_buf"
  /\ Free("bufferMutex")
  /\ mutex' = TakeMutex("scanner", "bufferMutex")
  /\ rawBuffer' = rawBuffer \o uart
  /\ uart' = <<>>
  /\ newDataAvailable' = (newDataAvailable \/ Len(uart) > 0)
  /\ lastDataTime' = IF Len(uart) > 0 THEN now ELSE lastDataTime
  /\ pc' = Goto("scanner", "sc_give_buf")
  /\ UNCHANGED <<encVars, netVars, now, script, feed, lastArrival, gapExceeded, gaps, stack,
                 errArg, localBuffer, barcodeBuffer, barcodeLen, stackSmashed,
                 lastScannerActivity, scannerInactivityReported, scWake, boxVars, errVars,
                 histVars>>

\* mutant: bytes that find rawBuffer full are read and thrown away
ScRead_DropOverflow ==
  /\ pc["scanner"] = "sc_take_buf"
  /\ Free("bufferMutex")
  /\ mutex' = TakeMutex("scanner", "bufferMutex")
  /\ LET room == (RawBufferSize - 1) - bufferIndex
         n    == Min(Len(uart), IF room > 0 THEN room ELSE 0)
     IN /\ rawBuffer' = rawBuffer \o Take(uart, n)
        /\ uart' = <<>>
        /\ newDataAvailable' = (newDataAvailable \/ n > 0)
        /\ lastDataTime' = IF n > 0 THEN now ELSE lastDataTime
  /\ pc' = Goto("scanner", "sc_give_buf")
  /\ UNCHANGED <<encVars, netVars, now, script, feed, lastArrival, gapExceeded, gaps, stack, errArg, localBuffer,
                 barcodeBuffer, barcodeLen, stackSmashed, lastScannerActivity,
                 scannerInactivityReported, scWake, boxVars, errVars, histVars>>

\* xSemaphoreTake(bufferMutex) and the read loop
ScRead ==
  /\ pc["scanner"] = "sc_take_buf"
  /\ Free("bufferMutex")
  /\ mutex' = TakeMutex("scanner", "bufferMutex")
  /\ LET room == (RawBufferSize - 1) - bufferIndex
         n    == Min(Len(uart), IF room > 0 THEN room ELSE 0)
     IN /\ rawBuffer' = rawBuffer \o Take(uart, n)
        /\ uart' = Drop(uart, n)
        /\ newDataAvailable' = (newDataAvailable \/ n > 0)
        /\ lastDataTime' = IF n > 0 THEN now ELSE lastDataTime
  /\ pc' = Goto("scanner", "sc_give_buf")
  /\ UNCHANGED <<encVars, netVars, now, script, feed, lastArrival, gapExceeded, gaps, stack, errArg, localBuffer,
                 barcodeBuffer, barcodeLen, stackSmashed, lastScannerActivity,
                 scannerInactivityReported, scWake, boxVars, errVars, histVars>>

\* xSemaphoreGive(bufferMutex); lastScannerActivity = millis(); the resumed report
ScGiveBuf ==
  /\ pc["scanner"] = "sc_give_buf"
  /\ mutex' = GiveMutex("bufferMutex")
  /\ lastScannerActivity' = now
  /\ IF scannerInactivityReported
       THEN /\ CallRecordError("scanner", <<"r">>, "sc_flush_check")
            /\ scannerInactivityReported' = FALSE
       ELSE /\ pc' = Goto("scanner", "sc_flush_check")
            /\ UNCHANGED <<netVars, stack, errArg, scannerInactivityReported>>
  /\ UNCHANGED <<encVars, netVars, envVars, rawBuffer, lastDataTime, newDataAvailable, localBuffer,
                 barcodeBuffer, barcodeLen, stackSmashed, scWake, boxVars, errVars,
                 histVars>>

\* mutant: the flush does not wait for the silence
ScFlushCheck_NoSilence ==
  /\ pc["scanner"] = "sc_flush_check"
  /\ pc' = Goto("scanner", IF newDataAvailable THEN "pb_take_buf" ELSE "sc_inactivity")
  /\ UNCHANGED <<encVars, netVars, envVars, stack, errArg, mutex, scanVars, boxVars, errVars, histVars>>

\* if (newDataAvailable && millis() - lastDataTime > BARCODE_TIMEOUT) processBarcode();
ScFlushCheck ==
  /\ pc["scanner"] = "sc_flush_check"
  /\ pc' = Goto("scanner",
                IF newDataAvailable /\ now - lastDataTime > BARCODE_TIMEOUT
                  THEN "pb_take_buf" ELSE "sc_inactivity")
  /\ UNCHANGED <<encVars, netVars, envVars, stack, errArg, mutex, scanVars, boxVars, errVars, histVars>>

\* the inactivity report and vTaskDelay(MAIN_LOOP_DELAY)
ScInactivity ==
  /\ pc["scanner"] = "sc_inactivity"
  /\ scWake' = now + MAIN_LOOP_DELAY
  /\ IF ~scannerInactivityReported
        /\ now - lastScannerActivity > SCANNER_INACTIVITY_THRESHOLD
       THEN /\ CallRecordError("scanner", <<"i">>, "sc_delay")
            /\ scannerInactivityReported' = TRUE
       ELSE /\ pc' = Goto("scanner", "sc_delay")
            /\ UNCHANGED <<netVars, stack, errArg, scannerInactivityReported>>
  /\ UNCHANGED <<encVars, netVars, envVars, mutex, rawBuffer, lastDataTime, newDataAvailable, localBuffer,
                 barcodeBuffer, barcodeLen, stackSmashed, lastScannerActivity, boxVars,
                 errVars, histVars>>

ScDelay ==
  /\ pc["scanner"] = "sc_delay"
  /\ now >= scWake
  /\ pc' = Goto("scanner", "sc_loop")
  /\ UNCHANGED <<encVars, netVars, envVars, stack, errArg, mutex, scanVars, boxVars, errVars, histVars>>

(***************************************************************************)
(* processBarcode                                                          *)
(***************************************************************************)
\* xSemaphoreTake(bufferMutex); the empty check; the copy; the reset
PbCopy ==
  /\ pc["scanner"] = "pb_take_buf"
  /\ Free("bufferMutex")
  /\ mutex' = TakeMutex("scanner", "bufferMutex")
  /\ IF bufferIndex = 0
       THEN /\ pc' = Goto("scanner", "pb_give_buf_empty")
            /\ UNCHANGED <<netVars, rawBuffer, newDataAvailable, localBuffer, flushLog>>
       ELSE /\ localBuffer' = rawBuffer
            /\ rawBuffer' = <<>>
            /\ newDataAvailable' = FALSE
            /\ flushLog' = Append(flushLog, rawBuffer)
            /\ pc' = Goto("scanner", "pb_give_buf")
  /\ UNCHANGED <<encVars, netVars, envVars, stack, errArg, lastDataTime, barcodeBuffer, barcodeLen,
                 stackSmashed, lastScannerActivity, scannerInactivityReported, scWake,
                 boxVars, errVars, publishLog, sinceReset>>

\* mutant: processBarcode goes on to classify without giving bufferMutex back
PbGiveBuf_Keep ==
  /\ pc["scanner"] \in {"pb_give_buf", "pb_give_buf_empty"}
  /\ pc' = Goto("scanner", IF pc["scanner"] = "pb_give_buf" THEN "pb_take_serial"
                           ELSE "sc_inactivity")
  /\ UNCHANGED <<encVars, netVars, envVars, stack, errArg, mutex, scanVars, boxVars, errVars,
                 histVars>>

\* xSemaphoreGive(bufferMutex) after the copy (or before the early return)
PbGiveBuf ==
  /\ pc["scanner"] \in {"pb_give_buf", "pb_give_buf_empty"}
  /\ mutex' = GiveMutex("bufferMutex")
  /\ pc' = Goto("scanner", IF pc["scanner"] = "pb_give_buf" THEN "pb_take_serial"
                           ELSE "sc_inactivity")
  /\ UNCHANGED <<encVars, netVars, envVars, stack, errArg, scanVars, boxVars, errVars, histVars>>

\* xSemaphoreTake(serialMutex); classification; extraction
PbClassify ==
  /\ pc["scanner"] = "pb_take_serial"
  /\ Free("serialMutex")
  /\ mutex' = TakeMutex("scanner", "serialMutex")
  /\ IF IsProtocolMessage(localBuffer)
       THEN /\ barcodeBuffer' = <<>>
            /\ barcodeLen' = 0
            /\ UNCHANGED stackSmashed
            /\ pc' = Goto("scanner", "pb_give_serial")
       ELSE /\ IF ExtractionInBounds(localBuffer)
                 THEN /\ barcodeBuffer' = ExtractPrintable(localBuffer)
                      /\ barcodeLen' = Len(ExtractPrintable(localBuffer))
                      /\ UNCHANGED stackSmashed
                 ELSE \* undefined behaviour: the bytes past the array are clobbered
                      /\ stackSmashed' = TRUE
                      /\ barcodeBuffer' \in SmashedContents(localBuffer)
                      /\ barcodeLen' \in {Len(ExtractPrintable(localBuffer)), 1}
            /\ pc' = Goto("scanner", IF barcodeLen' > 0 THEN "pb_take_mailbox"
                                     ELSE "pb_give_serial")
  /\ UNCHANGED <<encVars, netVars, envVars, stack, errArg, rawBuffer, lastDataTime, newDataAvailable,
                 localBuffer, lastScannerActivity, scannerInactivityReported, scWake,
                 boxVars, errVars, histVars>>

\* mutant: a payload that is still pending is kept and the new one dropped
PbPublish_KeepPending ==
  /\ pc["scanner"] = "pb_take_mailbox"
  /\ Free("barcodeMutex")
  /\ mutex' = TakeMutex("scanner", "barcodeMutex")
  /\ barcodeData' = IF barcodeData.newData THEN barcodeData
                    ELSE [data |-> StrncpyData(barcodeBuffer), length |-> barcodeLen,
                          newData |-> TRUE]
  /\ publishLog' = Append(publishLog, StrncpyData(barcodeBuffer))
  /\ pc' = Goto("scanner", "pb_give_mailbox")
  /\ UNCHANGED <<encVars, netVars, envVars, stack, errArg, scanVars, drained, errVars, flushLog,
                 sinceReset>>

\* xSemaphoreTake(barcodeData.mutex); strncpy; length; newData = true
PbPublish ==
  /\ pc["scanner"] = "pb_take_mailbox"
  /\ Free("barcodeMutex")
  /\ mutex' = TakeMutex("scanner", "barcodeMutex")
  /\ barcodeData' = [data |-> StrncpyData(barcodeBuffer), length |-> barcodeLen,
                     newData |-> TRUE]
  /\ publishLog' = Append(publishLog, StrncpyData(barcodeBuffer))
  /\ pc' = Goto("scanner", "pb_give_mailbox")
  /\ UNCHANGED <<encVars, netVars, envVars, stack, errArg, scanVars, drained, errVars, flushLog,
                 sinceReset>>

PbGiveMailbox ==
  /\ pc["scanner"] = "pb_give_mailbox"
  /\ mutex' = GiveMutex("barcodeMutex")
  /\ pc' = Goto("scanner", "pb_give_serial")
  /\ UNCHANGED <<encVars, netVars, envVars, stack, errArg, scanVars, boxVars, errVars, histVars>>

PbGiveSerial ==
  /\ pc["scanner"] = "pb_give_serial"
  /\ mutex' = GiveMutex("serialMutex")
  /\ pc' = Goto("scanner", "sc_inactivity")
  /\ UNCHANGED <<encVars, netVars, envVars, stack, errArg, scanVars, boxVars, errVars, histVars>>

ScannerStep ==
  \/ ScStart
  \/ ScLoop \/ ScRead \/ ScGiveBuf \/ ScFlushCheck \/ ScInactivity \/ ScDelay
  \/ PbCopy \/ PbGiveBuf \/ PbClassify \/ PbPublish \/ PbGiveMailbox \/ PbGiveSerial
  \/ RecordErrorStep("scanner")

(***************************************************************************)
(* The scanner task against its environment                                *)
(*                                                                         *)
(* The network task appears only through what the scanner task can see of  *)
(* it: the mailbox flag being cleared under the mailbox mutex.             *)
(***************************************************************************)
\* networkTask: barcodeData.newData = false under barcodeData.mutex
EnvDrain ==
  /\ barcodeData.newData
  /\ Free("barcodeMutex")
  /\ barcodeData' = [barcodeData EXCEPT !.newData = FALSE]
  /\ drained' = TRUE
  /\ UNCHANGED <<encVars, netVars, envVars, ctlVars, scanVars, errVars, histVars>>

\* no iteration of the scanner loop at time t would read, flush or report
ScannerQuiet(t) ==
  /\ uart = <<>>
  /\ newDataAvailable => t - lastDataTime <= BARCODE_TIMEOUT
  /\ ~scannerInactivityReported => t - lastScannerActivity <= SCANNER_INACTIVITY_THRESHOLD

\* the next iteration of the scanner loop has something to do
ScannerBusy ==
  \/ uart # <<>>
  \/ newDataAvailable /\ now + MAIN_LOOP_DELAY - lastDataTime > BARCODE_TIMEOUT
  \/ ~scannerInactivityReported
       /\ now + MAIN_LOOP_DELAY - lastScannerActivity > SCANNER_INACTIVITY_THRESHOLD

\* one loop delay, one flush gap, or the time left until the inactivity deadline
ScanTickSteps ==
  {MAIN_LOOP_DELAY, BARCODE_TIMEOUT,
   lastScannerActivity + SCANNER_INACTIVITY_THRESHOLD - now}

\* time passes while the scanner task sleeps in vTaskDelay; a step longer than
\* one delay stands for iterations in which the loop had nothing to do
TickScan ==
  \E d \in ScanTickSteps :
    /\ pc["scanner"] = "sc_delay"
    /\ now < scWake
    /\ d > 0
    /\ now + d <= MaxTime
    /\ d = MAIN_LOOP_DELAY => ScannerBusy
    /\ d > MAIN_LOOP_DELAY => ScannerQuiet(now + d - MAIN_LOOP_DELAY)
    /\ d = BARCODE_TIMEOUT => newDataAvailable
    /\ d > BARCODE_TIMEOUT => ~newDataAvailable
    /\ now' = now + d
    /\ UNCHANGED <<encVars, netVars, script, feed, uart, lastArrival, gapExceeded, gaps, ctlVars, scanVars,
                   boxVars, errVars, histVars>>

InitScan ==
  /\ InitCommon
  /\ script \in Scripts
  /\ feed = script
  /\ encodeArg = <<>>
  /\ encodedString = <<>>

NextScan == ScannerStep \/ UartArrive \/ EnvDrain \/ TickScan

SpecScan == InitScan /\ [][NextScan]_vars

(***************************************************************************)
(* Calls and returns of the network task's functions                       *)
(***************************************************************************)
Max(a, b) == IF a > b THEN a ELSE b

Call(t, entry, ret) ==
  /\ pc' = Goto(t, entry)
  /\ stack' = [stack EXCEPT ![t] = <<ret>> \o @]

Return(t) ==
  /\ pc' = Goto(t, Head(stack[t]))
  /\ stack' = [stack EXCEPT ![t] = Tail(@)]

\* the responses a PUT can end with: 2xx, an error status, a transport failure
ResponseCodes == {200, 500, -1}
Success(code) == code >= 200 /\ code < 300

\* the payloads the scanner side publishes while the network task is followed
Payloads == {<<65>>, <<66>>}

\* the mutex a task is about to take at its position
WaitsFor(t) ==
  CASE pc[t] \in {"ev_connected", "ev_got_ip", "ev_disconnected", "ev_stop",
                  "re_take_serial", "pb_take_serial", "sc_start", "nt_start_print", "ie_print",
                  "ie_fail_print", "ie_print2", "ie_dot", "ie_report", "rs_print",
                  "hb_book", "sb_book", "nt_status_print", "nt_trig_print",
                  "nt_reconnect_print"} -> "serialMutex"
    [] pc[t] \in {"re_take_error", "hb_drain"} -> "errorMutex"
    [] pc[t] \in {"pb_take_mailbox", "nt_box_take"} -> "barcodeMutex"
    [] pc[t] \in {"sc_take_buf", "pb_take_buf"} -> "bufferMutex"
    [] OTHER -> "none"

Blocked(t) == WaitsFor(t) # "none" /\ ~Free(WaitsFor(t))
\* xSemaphoreTake(m, portMAX_DELAY) by the task that holds m never returns
SelfBlocked(t) == WaitsFor(t) # "none" /\ Holds(t, WaitsFor(t))

\* the first instant base + k * step (k >= 0) that is not before t
GridAtOrAfter(base, step, t) ==
  IF t <= base THEN base ELSE base + step * ((t - base + step - 1) \div step)

(***************************************************************************)
(* initEthernet                                                            *)
(***************************************************************************)
\* Serial.println("Initializing Ethernet...") under serialMutex
IePrint ==
  /\ pc["network"] = "ie_print"
  /\ Free("serialMutex")
  /\ pc' = Goto("network", "ie_begin")
  /\ UNCHANGED <<encVars, envVars, stack, errArg, mutex, scanVars, boxVars, errVars, histVars, netVars>>

\* WiFi.onEvent(WiFiEvent); ETH.begin(...)
IeBegin ==
  /\ pc["network"] = "ie_begin"
  /\ \E ok \in BOOLEAN :
       /\ ethStarted' = (ethStarted \/ ok)
       /\ pc' = Goto("network", IF ok THEN "ie_print2" ELSE "ie_fail_print")
  /\ UNCHANGED <<encVars, envVars, stack, errArg, mutex, scanVars, boxVars, errVars, histVars,
                 networkConnected, linkChanges, hbVars, loopVars, httpVars, wdtVars>>

\* "ETH start Failed!" under serialMutex, then recordError and return
IeFailPrint ==
  /\ pc["network"] = "ie_fail_print"
  /\ Free("serialMutex")
  /\ CallRecordError("network", <<"b">>, "ie_return")
  /\ UNCHANGED <<encVars, envVars, mutex, scanVars, boxVars, errVars, histVars, netVars>>

IeReturn ==
  /\ pc["network"] = "ie_return"
  /\ Return("network")
  /\ startTime' = 0
  /\ UNCHANGED <<encVars, envVars, errArg, mutex, scanVars, boxVars, errVars, histVars, linkVars, hbVars,
                 currentTime, lastHeartbeatTime, lastNetworkStatusCheck, trigger, httpVars,
                 wdtVars>>

\* the address-mode and "Waiting for Ethernet link..." prints; startTime = millis()
IePrint2 ==
  /\ pc["network"] = "ie_print2"
  /\ Free("serialMutex")
  /\ startTime' = now
  /\ pc' = Goto("network", "ie_wait")
  /\ UNCHANGED <<encVars, envVars, stack, errArg, mutex, scanVars, boxVars, errVars, histVars,
                 linkVars, hbVars, currentTime, lastHeartbeatTime, lastNetworkStatusCheck,
                 trigger, httpVars, wdtVars>>

\* while (!networkConnected && millis() - startTime < ETH_CONNECT_TIMEOUT)
IeWait ==
  /\ pc["network"] = "ie_wait"
  /\ pc' = Goto("network",
                IF ~networkConnected /\ now - startTime < ETH_CONNECT_TIMEOUT
                  THEN "ie_dot" ELSE "ie_report")
  /\ UNCHANGED <<encVars, envVars, stack, errArg, mutex, scanVars, boxVars, errVars, histVars, netVars>>

\* Serial.print(".") under serialMutex; delay(500)
IeDot ==
  /\ pc["network"] = "ie_dot"
  /\ Free("serialMutex")
  /\ ntWake' = now + LinkPollDelay
  /\ pc' = Goto("network", "ie_delay")
  /\ UNCHANGED <<encVars, envVars, stack, errArg, mutex, scanVars, boxVars, errVars, histVars,
                 linkVars, hbVars, loopVars, httpVars, wdtArmed, wdtFed, hwResets>>

\* the instant at which the wait loop next finds something to do: the link is
\* up, the console is taken, or the timeout has run out
IeNextWake ==
  IF networkConnected \/ ~Free("serialMutex")
    THEN GridAtOrAfter(ntWake, LinkPollDelay, now)
    ELSE GridAtOrAfter(ntWake, LinkPollDelay, Max(now, startTime + ETH_CONNECT_TIMEOUT))

IeDelay ==
  /\ pc["network"] = "ie_delay"
  /\ now >= IeNextWake
  /\ pc' = Goto("network", "ie_wait")
  /\ UNCHANGED <<encVars, envVars, stack, errArg, mutex, scanVars, boxVars, errVars, histVars, netVars>>

\* the report after the wait, under serialMutex; recordError on a timeout
IeReport ==
  /\ pc["network"] = "ie_report"
  /\ Free("serialMutex")
  /\ mutex' = TakeMutex("network", "serialMutex")
  /\ IF networkConnected
       THEN /\ pc' = Goto("network", "ie_give_serial")
            /\ UNCHANGED <<stack, errArg>>
       ELSE CallRecordError("network", <<"t">>, "ie_give_serial")
  /\ UNCHANGED <<encVars, envVars, scanVars, boxVars, errVars, histVars, netVars>>

IeGiveSerial ==
  /\ pc["network"] = "ie_give_serial"
  /\ mutex' = GiveMutex("serialMutex")
  /\ Return("network")
  /\ startTime' = 0
  /\ UNCHANGED <<encVars, envVars, errArg, scanVars, boxVars, errVars, histVars, linkVars, hbVars,
                 currentTime, lastHeartbeatTime, lastNetworkStatusCheck, trigger, httpVars,
                 wdtVars>>

InitEthernetStep ==
  \/ IePrint \/ IeBegin \/ IeFailPrint \/ IeReturn \/ IePrint2 \/ IeWait \/ IeDot
  \/ IeDelay \/ IeReport \/ IeGiveSerial

(***************************************************************************)
(* resetEthernet                                                           *)
(***************************************************************************)
\* "RESETTING ETHERNET HARDWARE" under serialMutex, then recordError
RsPrint ==
  /\ pc["network"] = "rs_print"
  /\ Free("serialMutex")
  /\ CallRecordError("network", <<"h">>, "rs_pins")
  /\ UNCHANGED <<encVars, envVars, mutex, scanVars, boxVars, errVars, histVars, netVars>>

\* digitalWrite(ETH_RST_PIN, LOW); delay(100)
RsPins ==
  /\ pc["network"] = "rs_pins"
  /\ hwResets < MaxResets
  /\ hwResets' = hwResets + 1
  /\ sinceReset' = "reset"
  /\ ntWake' = now + ResetPulse
  /\ pc' = Goto("network", "rs_delay")
  /\ UNCHANGED <<encVars, envVars, stack, errArg, mutex, scanVars, boxVars, errVars, flushLog,
                 publishLog, linkVars, hbVars, loopVars, httpVars, wdtArmed, wdtFed>>

\* digitalWrite(ETH_RST_PIN, HIGH); networkConnected = false; initEthernet()
RsRelease ==
  /\ pc["network"] = "rs_delay"
  /\ now >= ntWake
  /\ networkConnected' = FALSE
  /\ Call("network", "ie_print", "rs_return")
  /\ UNCHANGED <<encVars, envVars, errArg, mutex, scanVars, boxVars, errVars, histVars,
                 ethStarted, linkChanges, hbVars, loopVars, httpVars, wdtVars>>

RsReturn ==
  /\ pc["network"] = "rs_return"
  /\ Return("network")
  /\ UNCHANGED <<encVars, envVars, errArg, mutex, scanVars, boxVars, errVars, histVars, netVars>>

ResetEthernetStep == RsPrint \/ RsPins \/ RsRelease \/ RsReturn

(***************************************************************************)
(* sendHeartbeat                                                           *)
(***************************************************************************)
\* if (!networkConnected) return false;
HbEnter ==
  /\ pc["network"] = "hb_enter"
  /\ IF networkConnected
       THEN /\ pc' = Goto("network", "hb_drain")
            /\ errorMessages' = <<>>
            /\ UNCHANGED <<stack, hbSuccess>>
       ELSE /\ Return("network")
            /\ hbSuccess' = FALSE
            /\ UNCHANGED errorMessages
  /\ sinceReset' = "heartbeat"
  /\ UNCHANGED <<encVars, envVars, errArg, mutex, scanVars, boxVars, errVars, flushLog,
                 publishLog, linkVars, hbVars, loopVars, httpResponseCode, putData, wdtVars>>

\* under errorMutex: the queue is copied into the URL and emptied
HbDrain ==
  /\ pc["network"] = "hb_drain"
  /\ Free("errorMutex")
  /\ mutex' = TakeMutex("network", "errorMutex")
  /\ errorMessages' = pendingErrorMessages
  /\ pendingErrorMessages' = <<>>
  /\ pc' = Goto("network", "hb_give_error")
  /\ UNCHANGED <<encVars, envVars, stack, errArg, scanVars, boxVars, histVars,
                 linkVars, hbVars, loopVars, httpResponseCode, hbSuccess, putData, wdtVars>>

\* xSemaphoreGive(errorMutex); http.begin(url); http.setTimeout(10000); the PUT starts
HbGiveError ==
  /\ pc["network"] = "hb_give_error"
  /\ mutex' = GiveMutex("errorMutex")
  /\ ntWake' = now + HttpTimeout
  /\ pc' = Goto("network", "hb_put")
  /\ UNCHANGED <<encVars, envVars, stack, errArg, scanVars, boxVars, errVars, histVars,
                 linkVars, hbVars, loopVars, httpVars, wdtArmed, wdtFed, hwResets>>

\* int httpResponseCode = http.PUT("{}")
HbResponse ==
  /\ pc["network"] = "hb_put"
  /\ \E code \in ResponseCodes : httpResponseCode' = code
  /\ pc' = Goto("network", "hb_book")
  /\ UNCHANGED <<encVars, envVars, stack, errArg, mutex, scanVars, boxVars, errVars, histVars,
                 linkVars, hbVars, loopVars, hbSuccess, errorMessages, putData, wdtVars>>

\* mutant: a failed heartbeat leaves the failure counter as it was
HbBook_NoCount ==
  /\ pc["network"] = "hb_book"
  /\ Free("serialMutex")
  /\ mutex' = TakeMutex("network", "serialMutex")
  /\ hbSuccess' = Success(httpResponseCode)
  /\ IF Success(httpResponseCode)
       THEN /\ consecutiveFailedHeartbeats' = 0
            /\ lastSuccessfulHeartbeat' = now
            /\ lastNetworkActivity' = now
            /\ pc' = Goto("network", "hb_give_serial")
            /\ UNCHANGED <<stack, errArg>>
       ELSE /\ consecutiveFailedHeartbeats' = consecutiveFailedHeartbeats
            /\ CallRecordError("network", <<"f">>, "hb_give_serial")
            /\ UNCHANGED <<lastSuccessfulHeartbeat, lastNetworkActivity>>
  /\ UNCHANGED <<encVars, envVars, scanVars, boxVars, errVars, histVars, linkVars, loopVars,
                 httpResponseCode, errorMessages, putData, wdtVars>>

\* under serialMutex: the bookkeeping of the response; recordError on a failure
HbBook ==
  /\ pc["network"] = "hb_book"
  /\ Free("serialMutex")
  /\ mutex' = TakeMutex("network", "serialMutex")
  /\ hbSuccess' = Success(httpResponseCode)
  /\ IF Success(httpResponseCode)
       THEN /\ consecutiveFailedHeartbeats' = 0
            /\ lastSuccessfulHeartbeat' = now
            /\ lastNetworkActivity' = now
            /\ pc' = Goto("network", "hb_give_serial")
            /\ UNCHANGED <<stack, errArg>>
       ELSE /\ consecutiveFailedHeartbeats' = consecutiveFailedHeartbeats + 1
            /\ CallRecordError("network", <<"f">>, "hb_give_serial")
            /\ UNCHANGED <<lastSuccessfulHeartbeat, lastNetworkActivity>>
  /\ UNCHANGED <<encVars, envVars, scanVars, boxVars, errVars, histVars, linkVars, loopVars,
                 httpResponseCode, errorMessages, putData, wdtVars>>

\* xSemaphoreGive(serialMutex); http.end(); return success;
HbGiveSerial ==
  /\ pc["network"] = "hb_give_serial"
  /\ mutex' = GiveMutex("serialMutex")
  /\ Return("network")
  /\ httpResponseCode' = 0
  /\ errorMessages' = <<>>
  /\ UNCHANGED <<encVars, envVars, errArg, scanVars, boxVars, errVars, histVars, linkVars, hbVars,
                 loopVars, hbSuccess, putData, wdtVars>>

SendHeartbeatStep ==
  HbEnter \/ HbDrain \/ HbGiveError \/ HbResponse \/ HbBook \/ HbGiveSerial

(***************************************************************************)
(* sendBarcodeData(barcodeData.data)                                       *)
(***************************************************************************)
\* if (!networkConnected) return false; urlEncode(barcodeData); the URL;
\* http.begin(url); http.setTimeout(10000); the PUT starts
SbEnter ==
  /\ pc["network"] = "sb_enter"
  /\ IF networkConnected
       THEN /\ pc' = Goto("network", "sb_put")
            /\ putData' = urlEncode(barcodeData.data)
            /\ ntWake' = now + HttpTimeout
            /\ UNCHANGED stack
       ELSE /\ Return("network")
            /\ UNCHANGED <<putData, ntWake>>
  /\ UNCHANGED <<encVars, envVars, errArg, mutex, scanVars, boxVars, errVars, histVars,
                 linkVars, hbVars, loopVars, httpResponseCode, hbSuccess, errorMessages,
                 wdtArmed, wdtFed, hwResets>>

\* int httpResponseCode = http.PUT("{}")
SbResponse ==
  /\ pc["network"] = "sb_put"
  /\ \E code \in ResponseCodes : httpResponseCode' = code
  /\ pc' = Goto("network", "sb_book")
  /\ UNCHANGED <<encVars, envVars, stack, errArg, mutex, scanVars, boxVars, errVars, histVars,
                 linkVars, hbVars, loopVars, hbSuccess, errorMessages, putData, wdtVars>>

\* under serialMutex: the bookkeeping of the response; recordError on a failure
SbBook ==
  /\ pc["network"] = "sb_book"
  /\ Free("serialMutex")
  /\ mutex' = TakeMutex("network", "serialMutex")
  /\ IF Success(httpResponseCode)
       THEN /\ lastNetworkActivity' = now
            /\ pc' = Goto("network", "sb_give_serial")
            /\ UNCHANGED <<stack, errArg>>
       ELSE /\ CallRecordError("network", <<"q">>, "sb_give_serial")
            /\ UNCHANGED lastNetworkActivity
  /\ UNCHANGED <<encVars, envVars, scanVars, boxVars, errVars, histVars, linkVars,
                 consecutiveFailedHeartbeats, lastSuccessfulHeartbeat, loopVars, httpVars,
                 wdtVars>>

\* xSemaphoreGive(serialMutex); http.end(); return success;
SbGiveSerial ==
  /\ pc["network"] = "sb_give_serial"
  /\ mutex' = GiveMutex("serialMutex")
  /\ Return("network")
  /\ httpResponseCode' = 0
  /\ UNCHANGED <<encVars, envVars, errArg, scanVars, boxVars, errVars, histVars, linkVars, hbVars,
                 loopVars, hbSuccess, errorMessages, putData, wdtVars>>

SendBarcodeDataStep == SbEnter \/ SbResponse \/ SbBook \/ SbGiveSerial

(***************************************************************************)
(* networkTask                                                             *)
(***************************************************************************)
\* esp_task_wdt_add(NULL)
NtSubscribe ==
  /\ pc["network"] = "nt_start"
  /\ wdtArmed' = TRUE
  /\ wdtFed' = now
  /\ pc' = Goto("network", "nt_start_print")
  /\ UNCHANGED <<encVars, envVars, stack, errArg, mutex, scanVars, boxVars, errVars, histVars,
                 linkVars, hbVars, loopVars, httpVars, ntWake, hwResets>>

\* "Network task subscribed to watchdog" under serialMutex; initEthernet()
NtStartPrint ==
  /\ pc["network"] = "nt_start_print"
  /\ Free("serialMutex")
  /\ Call("network", "ie_print", "nt_boot_check")
  /\ UNCHANGED <<encVars, envVars, errArg, mutex, scanVars, boxVars, errVars, histVars, netVars>>

\* if (networkConnected) { if (sendHeartbeat()) ...
NtBootCheck ==
  /\ pc["network"] = "nt_boot_check"
  /\ IF networkConnected
       THEN Call("network", "hb_enter", "nt_boot_after")
       ELSE /\ pc' = Goto("network", "nt_loop_init")
            /\ UNCHANGED stack
  /\ UNCHANGED <<encVars, envVars, errArg, mutex, scanVars, boxVars, errVars, histVars, netVars>>

\* lastSuccessfulHeartbeat = millis(); lastNetworkActivity = millis();
NtBootAfter ==
  /\ pc["network"] = "nt_boot_after"
  /\ IF hbSuccess
       THEN /\ lastSuccessfulHeartbeat' = now
            /\ lastNetworkActivity' = now
       ELSE UNCHANGED <<lastSuccessfulHeartbeat, lastNetworkActivity>>
  /\ pc' = Goto("network", "nt_loop_init")
  /\ hbSuccess' = FALSE
  /\ UNCHANGED <<encVars, envVars, stack, errArg, mutex, scanVars, boxVars, errVars, histVars,
                 linkVars, consecutiveFailedHeartbeats, loopVars, httpResponseCode,
                 errorMessages, putData, wdtVars>>

\* unsigned long lastHeartbeatTime = 0; unsigned long lastNetworkStatusCheck = 0;
NtLoopInit ==
  /\ pc["network"] = "nt_loop_init"
  /\ lastHeartbeatTime' = 0
  /\ lastNetworkStatusCheck' = 0
  /\ pc' = Goto("network", "nt_loop")
  /\ UNCHANGED <<encVars, envVars, stack, errArg, mutex, scanVars, boxVars, errVars, histVars,
                 linkVars, hbVars, currentTime, startTime, trigger, httpVars, wdtVars>>

\* esp_task_wdt_reset(); currentTime = millis(); is a supervision pass due?
NtLoopTop ==
  /\ pc["network"] = "nt_loop"
  /\ wdtFed' = now
  /\ currentTime' = now
  /\ pc' = Goto("network", IF now - lastNetworkStatusCheck > StatusCheckInterval
                             THEN "nt_status_print" ELSE "nt_hb_check")
  /\ UNCHANGED <<encVars, envVars, stack, errArg, mutex, scanVars, boxVars, errVars, histVars,
                 linkVars, hbVars, lastHeartbeatTime, lastNetworkStatusCheck, startTime,
                 trigger, httpVars, ntWake, wdtArmed, hwResets>>

\* the status line under serialMutex; then the inactivity test
NtStatusPrint ==
  /\ pc["network"] = "nt_status_print"
  /\ Free("serialMutex")
  /\ IF currentTime - lastNetworkActivity > NetworkWatchdogTimeout /\ lastNetworkActivity > 0
       THEN /\ trigger' = "inactivity"
            /\ pc' = Goto("network", "nt_trig_print")
       ELSE /\ pc' = Goto("network", "nt_fail_check")
            /\ UNCHANGED trigger
  /\ sinceReset' = IF sinceReset = "reset" THEN "pass" ELSE sinceReset
  /\ UNCHANGED <<encVars, envVars, stack, errArg, mutex, scanVars, boxVars, errVars, flushLog,
                 publishLog, linkVars, hbVars, currentTime, lastHeartbeatTime,
                 lastNetworkStatusCheck, startTime, httpVars, wdtVars>>

\* if (consecutiveFailedHeartbeats >= MAX_FAILED_HEARTBEATS)
NtFailCheck ==
  /\ pc["network"] = "nt_fail_check"
  /\ IF consecutiveFailedHeartbeats >= MAX_FAILED_HEARTBEATS
       THEN /\ trigger' = "failures"
            /\ pc' = Goto("network", "nt_trig_print")
       ELSE /\ pc' = Goto("network", "nt_link_check")
            /\ UNCHANGED trigger
  /\ UNCHANGED <<encVars, envVars, stack, errArg, mutex, scanVars, boxVars, errVars, histVars,
                 linkVars, hbVars, currentTime, lastHeartbeatTime, lastNetworkStatusCheck,
                 startTime, httpVars, wdtVars>>

\* the trigger's console lines under serialMutex, then recordError
NtTrigPrint ==
  /\ pc["network"] = "nt_trig_print"
  /\ Free("serialMutex")
  /\ CallRecordError("network", IF trigger = "inactivity" THEN <<"w">> ELSE <<"m">>,
                     "nt_trig_reset")
  /\ UNCHANGED <<encVars, envVars, mutex, scanVars, boxVars, errVars, histVars, netVars>>

\* resetEthernet();
NtTrigReset ==
  /\ pc["network"] = "nt_trig_reset"
  /\ Call("network", "rs_print", "nt_trig_after")
  /\ UNCHANGED <<encVars, envVars, errArg, mutex, scanVars, boxVars, errVars, histVars, netVars>>

\* lastNetworkActivity = currentTime;  or  consecutiveFailedHeartbeats = 0;
NtTrigAfter ==
  /\ pc["network"] = "nt_trig_after"
  /\ IF trigger = "inactivity"
       THEN /\ lastNetworkActivity' = currentTime
            /\ pc' = Goto("network", "nt_fail_check")
            /\ UNCHANGED consecutiveFailedHeartbeats
       ELSE /\ consecutiveFailedHeartbeats' = 0
            /\ pc' = Goto("network", "nt_link_check")
            /\ UNCHANGED lastNetworkActivity
  /\ trigger' = "none"
  /\ UNCHANGED <<encVars, envVars, stack, errArg, mutex, scanVars, boxVars, errVars, histVars,
                 linkVars, lastSuccessfulHeartbeat, currentTime, lastHeartbeatTime,
                 lastNetworkStatusCheck, startTime, httpVars, wdtVars>>

\* if (!networkConnected)
NtLinkCheck ==
  /\ pc["network"] = "nt_link_check"
  /\ pc' = Goto("network", IF ~networkConnected THEN "nt_reconnect_print" ELSE "nt_pass_end")
  /\ UNCHANGED <<encVars, envVars, stack, errArg, mutex, scanVars, boxVars, errVars, histVars, netVars>>

\* mutant: the pass reports the lost link and leaves it at that
NtReconnectPrint_NoInit ==
  /\ pc["network"] = "nt_reconnect_print"
  /\ Free("serialMutex")
  /\ pc' = Goto("network", "nt_reconnect_check")
  /\ UNCHANGED <<encVars, envVars, stack, errArg, mutex, scanVars, boxVars, errVars, histVars,
                 netVars>>

\* "Ethernet disconnected, attempting to reconnect..." under serialMutex; initEthernet()
NtReconnectPrint ==
  /\ pc["network"] = "nt_reconnect_print"
  /\ Free("serialMutex")
  /\ Call("network", "ie_print", "nt_reconnect_check")
  /\ UNCHANGED <<encVars, envVars, errArg, mutex, scanVars, boxVars, errVars, histVars, netVars>>

\* if (networkConnected) { if (sendHeartbeat()) ...
NtReconnectCheck ==
  /\ pc["network"] = "nt_reconnect_check"
  /\ IF networkConnected
       THEN Call("network", "hb_enter", "nt_reconnect_after")
       ELSE /\ pc' = Goto("network", "nt_pass_end")
            /\ UNCHANGED stack
  /\ UNCHANGED <<encVars, envVars, errArg, mutex, scanVars, boxVars, errVars, histVars, netVars>>

\* lastHeartbeatTime, lastSuccessfulHeartbeat, lastNetworkActivity = currentTime
NtReconnectAfter ==
  /\ pc["network"] = "nt_reconnect_after"
  /\ IF hbSuccess
       THEN /\ lastHeartbeatTime' = currentTime
            /\ lastSuccessfulHeartbeat' = currentTime
            /\ lastNetworkActivity' = currentTime
       ELSE UNCHANGED <<lastHeartbeatTime, lastSuccessfulHeartbeat, lastNetworkActivity>>
  /\ pc' = Goto("network", "nt_pass_end")
  /\ hbSuccess' = FALSE
  /\ UNCHANGED <<encVars, envVars, stack, errArg, mutex, scanVars, boxVars, errVars, histVars,
                 linkVars, consecutiveFailedHeartbeats, currentTime, lastNetworkStatusCheck,
                 startTime, trigger, httpResponseCode, errorMessages, putData, wdtVars>>

\* lastNetworkStatusCheck = currentTime;
NtPassEnd ==
  /\ pc["network"] = "nt_pass_end"
  /\ lastNetworkStatusCheck' = currentTime
  /\ pc' = Goto("network", "nt_hb_check")
  /\ UNCHANGED <<encVars, envVars, stack, errArg, mutex, scanVars, boxVars, errVars, histVars,
                 linkVars, hbVars, currentTime, lastHeartbeatTime, startTime, trigger,
                 httpVars, wdtVars>>

\* if (networkConnected && (currentTime - lastHeartbeatTime > HEARTBEAT_INTERVAL))
NtHbCheck ==
  /\ pc["network"] = "nt_hb_check"
  /\ IF networkConnected /\ currentTime - lastHeartbeatTime > HEARTBEAT_INTERVAL
       THEN Call("network", "hb_enter", "nt_hb_after")
       ELSE /\ pc' = Goto("network", "nt_box_check")
            /\ UNCHANGED stack
  /\ UNCHANGED <<encVars, envVars, errArg, mutex, scanVars, boxVars, errVars, histVars, netVars>>

\* lastHeartbeatTime = currentTime;
NtHbAfter ==
  /\ pc["network"] = "nt_hb_after"
  /\ lastHeartbeatTime' = currentTime
  /\ hbSuccess' = FALSE
  /\ pc' = Goto("network", "nt_box_check")
  /\ UNCHANGED <<encVars, envVars, stack, errArg, mutex, scanVars, boxVars, errVars, histVars,
                 linkVars, hbVars, currentTime, lastNetworkStatusCheck, startTime, trigger,
                 httpResponseCode, errorMessages, putData, wdtVars>>

\* if (networkConnected)
NtBoxCheck ==
  /\ pc["network"] = "nt_box_check"
  /\ pc' = Goto("network", IF networkConnected THEN "nt_box_take" ELSE "nt_sleep")
  /\ UNCHANGED <<encVars, envVars, stack, errArg, mutex, scanVars, boxVars, errVars, histVars, netVars>>

\* xSemaphoreTake(barcodeData.mutex); if (barcodeData.newData) sendBarcodeData(...)
NtBoxTake ==
  /\ pc["network"] = "nt_box_take"
  /\ Free("barcodeMutex")
  /\ mutex' = TakeMutex("network", "barcodeMutex")
  /\ IF barcodeData.newData
       THEN Call("network", "sb_enter", "nt_box_clear")
       ELSE /\ pc' = Goto("network", "nt_box_give")
            /\ UNCHANGED stack
  /\ UNCHANGED <<encVars, envVars, errArg, scanVars, boxVars, errVars, histVars, netVars>>

\* barcodeData.newData = false;
NtBoxClear ==
  /\ pc["network"] = "nt_box_clear"
  /\ barcodeData' = [barcodeData EXCEPT !.newData = FALSE]
  /\ drained' = TRUE
  /\ pc' = Goto("network", "nt_box_give")
  /\ UNCHANGED <<encVars, envVars, stack, errArg, mutex, scanVars, errVars, histVars, netVars>>

\* xSemaphoreGive(barcodeData.mutex);
NtBoxGive ==
  /\ pc["network"] = "nt_box_give"
  /\ mutex' = GiveMutex("barcodeMutex")
  /\ putData' = <<>>
  /\ pc' = Goto("network", "nt_sleep")
  /\ UNCHANGED <<encVars, envVars, stack, errArg, scanVars, boxVars, errVars, histVars, linkVars,
                 hbVars, loopVars, httpResponseCode, hbSuccess, errorMessages, wdtVars>>

\* vTaskDelay(100 / portTICK_PERIOD_MS);
NtSleep ==
  /\ pc["network"] = "nt_sleep"
  /\ ntWake' = now + NetworkLoopDelay
  /\ pc' = Goto("network", "nt_delay")
  /\ UNCHANGED <<encVars, envVars, stack, errArg, mutex, scanVars, boxVars, errVars, histVars,
                 linkVars, hbVars, loopVars, httpVars, wdtArmed, wdtFed, hwResets>>

\* the first wake-up of the loop, 100 ms apart, after lim
LoopWakeAfter(lim) == GridAtOrAfter(ntWake, NetworkLoopDelay, lim + 1)

\* the first wake-up at which the loop body has something to do: a supervision
\* pass is due, a heartbeat is due, or a payload is pending; the iterations
\* before it only reset the watchdog
NtNextWake ==
  LET pass == LoopWakeAfter(lastNetworkStatusCheck + StatusCheckInterval)
      beat == IF networkConnected
                THEN LoopWakeAfter(lastHeartbeatTime + HEARTBEAT_INTERVAL) ELSE pass
      box  == IF networkConnected /\ barcodeData.newData THEN ntWake ELSE pass
  IN GridAtOrAfter(ntWake, NetworkLoopDelay, Max(now, Min(pass, Min(beat, box))))

NtWake ==
  /\ pc["network"] = "nt_delay"
  /\ now >= NtNextWake
  /\ pc' = Goto("network", "nt_loop")
  /\ UNCHANGED <<encVars, envVars, stack, errArg, mutex, scanVars, boxVars, errVars, histVars, netVars>>

NetworkTaskStep ==
  \/ NtSubscribe \/ NtStartPrint \/ NtBootCheck \/ NtBootAfter \/ NtLoopInit \/ NtLoopTop
  \/ NtStatusPrint \/ NtFailCheck \/ NtTrigPrint \/ NtTrigReset \/ NtTrigAfter
  \/ NtLinkCheck \/ NtReconnectPrint \/ NtReconnectCheck \/ NtReconnectAfter \/ NtPassEnd
  \/ NtHbCheck \/ NtHbAfter \/ NtBoxCheck \/ NtBoxTake \/ NtBoxClear \/ NtBoxGive
  \/ NtSleep \/ NtWake

NetworkStep ==
  \/ NetworkTaskStep \/ InitEthernetStep \/ ResetEthernetStep \/ SendHeartbeatStep
  \/ SendBarcodeDataStep \/ RecordErrorStep("network")

(***************************************************************************)
(* The surroundings of the network task: the link, the published payloads, *)
(* time and the task watchdog                                              *)
(***************************************************************************)
\* the driver reports an address: WiFiEvent sets networkConnected = true
LinkUp ==
  /\ ethStarted
  /\ ~networkConnected
  /\ linkChanges < MaxLinkChanges
  /\ networkConnected' = TRUE
  /\ linkChanges' = linkChanges + 1
  /\ UNCHANGED <<encVars, envVars, ctlVars, scanVars, boxVars, errVars, histVars, ethStarted,
                 hbVars, loopVars, httpVars, wdtVars>>

\* the driver reports a disconnect or a stop: WiFiEvent sets networkConnected = false
LinkDown ==
  /\ networkConnected
  /\ linkChanges < MaxLinkChanges
  /\ networkConnected' = FALSE
  /\ linkChanges' = linkChanges + 1
  /\ UNCHANGED <<encVars, envVars, ctlVars, scanVars, boxVars, errVars, histVars, ethStarted,
                 hbVars, loopVars, httpVars, wdtVars>>

\* processBarcode's write to the mailbox, under barcodeData.mutex
EnvPublish ==
  /\ Free("barcodeMutex")
  /\ Len(publishLog) < MaxPublishes
  /\ \E d \in Payloads :
       /\ barcodeData' = [data |-> d, length |-> Len(d), newData |-> TRUE]
       /\ publishLog' = Append(publishLog, d)
  /\ UNCHANGED <<encVars, envVars, ctlVars, scanVars, drained, errVars, flushLog, sinceReset,
                 netVars>>

NetSleeping == pc["network"] \in {"nt_delay", "ie_delay", "rs_delay", "hb_put", "sb_put"}

\* the end of the network task's sleep or request
NetNextWake ==
  CASE pc["network"] = "nt_delay" -> NtNextWake
    [] pc["network"] = "ie_delay" -> IeNextWake
    [] OTHER -> ntWake

\* a watchdog that runs only while the network task is in its own loop, not
\* inside the functions it calls
WdtWatching_LoopOnly == wdtArmed /\ pc["network"] # "nt_delay" /\ stack["network"] = <<>>

WdtWatching == wdtArmed /\ pc["network"] # "nt_delay"

\* time passes while the network task sleeps, waits for a response or is
\* blocked on a mutex, up to the next instant at which something happens
TickNet ==
  /\ NetSleeping \/ Blocked("network")
  /\ LET wake == IF NetSleeping THEN NetNextWake ELSE wdtFed + WdtTimeout
         next == IF WdtWatching THEN Min(wake, wdtFed + WdtTimeout) ELSE wake
     IN /\ next > now
        /\ next <= MaxNetTime
        /\ now' = next
  /\ UNCHANGED <<encVars, script, feed, uart, lastArrival, gapExceeded, gaps, ctlVars, scanVars,
                 boxVars, errVars, histVars, netVars>>

\* the task watchdog: the network task has not reset it for 60 s; panic and restart
WatchdogReboot ==
  /\ WdtWatching
  /\ now - wdtFed >= WdtTimeout
  /\ now' = SetupDelay
  /\ uart' = <<>>
  /\ lastArrival' = 0
  /\ pc' = [t \in Tasks |-> CASE t = "scanner" -> "sc_start"
                              [] t = "network" -> "nt_start"
                              [] OTHER -> "ev_idle"]
  /\ stack' = [t \in Tasks |-> <<>>]
  /\ errArg' = [t \in Tasks |-> <<>>]
  /\ mutex' = [m \in Mutexes |-> NoTask]
  /\ barcodeData' = [data |-> <<>>, length |-> 0, newData |-> FALSE]
  /\ pendingErrorMessages' = AppendError(<<>>, <<"S">>)
  /\ networkConnected' = FALSE
  /\ consecutiveFailedHeartbeats' = 0
  /\ lastSuccessfulHeartbeat' = 0
  /\ lastNetworkActivity' = 0
  /\ currentTime' = 0
  /\ lastHeartbeatTime' = 0
  /\ lastNetworkStatusCheck' = 0
  /\ startTime' = 0
  /\ httpResponseCode' = 0
  /\ hbSuccess' = FALSE
  /\ errorMessages' = <<>>
  /\ putData' = <<>>
  /\ trigger' = "none"
  /\ ntWake' = 0
  /\ wdtArmed' = FALSE
  /\ wdtFed' = 0
  /\ ethStarted' = FALSE
  /\ rawBuffer' = <<>>
  /\ lastDataTime' = 0
  /\ newDataAvailable' = FALSE
  /\ localBuffer' = <<>>
  /\ barcodeBuffer' = <<>>
  /\ barcodeLen' = 0
  /\ stackSmashed' = FALSE
  /\ lastScannerActivity' = 0
  /\ scannerInactivityReported' = FALSE
  /\ scWake' = 0
  /\ gapExceeded' = FALSE
  /\ gaps' = 0
  /\ drained' = FALSE
  /\ flushLog' = <<>>
  /\ publishLog' = <<>>
  /\ sinceReset' = "boot"
  /\ hwResets' = 0
  /\ linkChanges' = 0
  /\ UNCHANGED <<encVars, script, feed>>

InitNet ==
  /\ InitCommon
  /\ script = <<>>
  /\ feed = <<>>
  /\ encodeArg = <<>>
  /\ encodedString = <<>>

NextNet ==
  NetworkStep \/ LinkUp \/ LinkDown \/ EnvPublish \/ TickNet \/ WatchdogReboot

SpecNet == InitNet /\ [][NextNet]_vars

\* the scheduler runs the network task whenever it can run, time passes,
\* and the watchdog timer fires when it has run out
SpecNetFair ==
  /\ SpecNet
  /\ WF_vars(NetworkStep)
  /\ WF_vars(TickNet)
  /\ WF_vars(WatchdogReboot)

(***************************************************************************)
(* The network task with a link that makes and loses contact repeatedly    *)
(***************************************************************************)
MaxFlaps == 6
MaxFlapTime == 120500

\* the driver reports an address: WiFiEvent sets networkConnected = true
LinkFlapUp ==
  /\ ethStarted
  /\ ~networkConnected
  /\ linkChanges < MaxFlaps
  /\ networkConnected' = TRUE
  /\ linkChanges' = linkChanges + 1
  /\ UNCHANGED <<encVars, envVars, ctlVars, scanVars, boxVars, errVars, histVars, ethStarted,
                 hbVars, loopVars, httpVars, wdtVars>>

\* the driver reports a disconnect or a stop: WiFiEvent sets networkConnected = false
LinkFlapDown ==
  /\ networkConnected
  /\ linkChanges < MaxFlaps
  /\ networkConnected' = FALSE
  /\ linkChanges' = linkChanges + 1
  /\ UNCHANGED <<encVars, envVars, ctlVars, scanVars, boxVars, errVars, histVars, ethStarted,
                 hbVars, loopVars, httpVars, wdtVars>>

\* time passes while the network task sleeps, waits for a response or is
\* blocked
TickFlap ==
  /\ NetSleeping \/ Blocked("network")
  /\ LET wake == IF NetSleeping THEN NetNextWake ELSE wdtFed + WdtTimeout
         next == IF WdtWatching THEN Min(wake, wdtFed + WdtTimeout) ELSE wake
     IN /\ next > now
        /\ next <= MaxFlapTime
        /\ now' = next
  /\ UNCHANGED <<encVars, script, feed, uart, lastArrival, gapExceeded, gaps, ctlVars, scanVars,
                 boxVars, errVars, histVars, netVars>>

\* the network task's steps while no barcode is scanned: the mailbox stays
\* empty, so sendBarcodeData and the clear of newData are never asked for
\* (FlapWithinReach)
NetworkFlapStep ==
  \/ NtSubscribe \/ NtStartPrint \/ NtBootCheck \/ NtBootAfter \/ NtLoopInit \/ NtLoopTop
  \/ NtStatusPrint \/ NtFailCheck \/ NtTrigPrint \/ NtTrigReset \/ NtTrigAfter
  \/ NtLinkCheck \/ NtReconnectPrint \/ NtReconnectCheck \/ NtReconnectAfter \/ NtPassEnd
  \/ NtHbCheck \/ NtHbAfter \/ NtBoxCheck \/ NtBoxTake \/ NtBoxGive \/ NtSleep \/ NtWake
  \/ InitEthernetStep \/ ResetEthernetStep \/ SendHeartbeatStep
  \/ RecordErrorStep("network")

FlapWithinReach ==
  pc["network"] \notin {"sb_enter", "sb_put", "sb_book", "sb_give_serial", "nt_box_clear"}

NextFlap ==
  NetworkFlapStep \/ LinkFlapUp \/ LinkFlapDown \/ TickFlap \/ WatchdogReboot

SpecFlap == InitNet /\ [][NextFlap]_vars

(***************************************************************************)
(* WiFiEvent, run by the task that delivers the driver's events            *)
(***************************************************************************)
\* an event has been delivered and WiFiEvent has not yet taken serialMutex;
\* "ev_connected" stands for the two events that only print
\* (ARDUINO_EVENT_ETH_START, ARDUINO_EVENT_ETH_CONNECTED)
EvPending == {"ev_connected", "ev_got_ip", "ev_disconnected", "ev_stop"}

\* the driver, started by ETH.begin, raises an event
EvPost ==
  /\ pc["event"] = "ev_idle"
  /\ ethStarted
  /\ linkChanges < MaxLinkChanges
  /\ \E l \in EvPending : pc' = Goto("event", l)
  /\ linkChanges' = linkChanges + 1
  /\ UNCHANGED <<encVars, envVars, stack, errArg, mutex, scanVars, boxVars, errVars, histVars,
                 networkConnected, ethStarted, hbVars, loopVars, httpVars, wdtVars>>

\* mutant: the disconnect and stop cases also restart the activity timer
EvHandle_TouchesTimer ==
  /\ pc["event"] \in EvPending
  /\ Free("serialMutex")
  /\ mutex' = TakeMutex("event", "serialMutex")
  /\ IF pc["event"] = "ev_connected"
       THEN /\ pc' = Goto("event", "ev_give")
            /\ UNCHANGED <<stack, errArg, networkConnected, lastNetworkActivity>>
       ELSE /\ networkConnected' = (pc["event"] = "ev_got_ip")
            /\ lastNetworkActivity' = now
            /\ CallRecordError("event",
                               CASE pc["event"] = "ev_got_ip" -> <<"c">>
                                 [] pc["event"] = "ev_disconnected" -> <<"d">>
                                 [] OTHER -> <<"s">>,
                               "ev_give")
  /\ UNCHANGED <<encVars, envVars, scanVars, boxVars, errVars, histVars, ethStarted,
                 linkChanges, consecutiveFailedHeartbeats, lastSuccessfulHeartbeat, loopVars,
                 httpVars, wdtVars>>

\* xSemaphoreTake(serialMutex); the switch: the prints, networkConnected,
\* recordError for GOT_IP, DISCONNECTED and STOP
EvHandle ==
  /\ pc["event"] \in EvPending
  /\ Free("serialMutex")
  /\ mutex' = TakeMutex("event", "serialMutex")
  /\ IF pc["event"] = "ev_connected"
       THEN /\ pc' = Goto("event", "ev_give")
            /\ UNCHANGED <<stack, errArg, networkConnected>>
       ELSE /\ networkConnected' = (pc["event"] = "ev_got_ip")
            /\ CallRecordError("event",
                               CASE pc["event"] = "ev_got_ip" -> <<"c">>
                                 [] pc["event"] = "ev_disconnected" -> <<"d">>
                                 [] OTHER -> <<"s">>,
                               "ev_give")
  /\ UNCHANGED <<encVars, envVars, scanVars, boxVars, errVars, histVars, ethStarted,
                 linkChanges, hbVars, loopVars, httpVars, wdtVars>>

\* xSemaphoreGive(serialMutex) at the end of WiFiEvent
EvGive ==
  /\ pc["event"] = "ev_give"
  /\ mutex' = GiveMutex("serialMutex")
  /\ pc' = Goto("event", "ev_idle")
  /\ UNCHANGED <<encVars, envVars, stack, errArg, scanVars, boxVars, errVars, histVars, netVars>>

EventStep == EvHandle \/ EvGive \/ RecordErrorStep("event")

(***************************************************************************)
(* The three tasks together                                                *)
(***************************************************************************)
\* t waits for a mutex whose holder waits in turn, the chain ending in a task
\* that waits for a mutex held by itself or by a task earlier in the chain
PermanentlyBlocked(t) ==
  /\ Blocked(t)
  /\ LET a == mutex[WaitsFor(t)]
     IN \/ a = t
        \/ /\ Blocked(a)
           /\ LET b == mutex[WaitsFor(a)]
              IN \/ b \in {t, a}
                 \/ Blocked(b) /\ mutex[WaitsFor(b)] \in {t, a, b}

\* the first wake-up of the scanner loop, 10 ms apart, at which an iteration
\* has something to do: bytes to read, a flush that is due, or the inactivity
\* report; the iterations before it leave the state as it is
ScanDue ==
  LET flush == IF newDataAvailable
                 THEN GridAtOrAfter(scWake, MAIN_LOOP_DELAY, lastDataTime + BARCODE_TIMEOUT + 1)
                 ELSE MaxSysTime + 1
      inact == IF ~scannerInactivityReported
                 THEN GridAtOrAfter(scWake, MAIN_LOOP_DELAY,
                                    lastScannerActivity + SCANNER_INACTIVITY_THRESHOLD + 1)
                 ELSE MaxSysTime + 1
  IN IF uart # <<>> THEN scWake ELSE Min(flush, inact)

\* task t can take a step now: it is neither asleep nor waiting for a mutex
\* that is taken
Ready(t) ==
  IF t = "scanner" /\ pc[t] = "sc_delay" THEN now >= scWake
  ELSE IF t = "network" /\ NetSleeping THEN now >= NetNextWake
  ELSE IF pc[t] = "ev_idle" THEN FALSE
  ELSE IF WaitsFor(t) # "none" THEN Free(WaitsFor(t))
  ELSE TRUE

\* the instants at which a sleeping task wakes up or the watchdog runs out
SysDeadlines ==
  (IF pc["scanner"] = "sc_delay" THEN {ScanDue} ELSE {})
    \cup (IF NetSleeping THEN {NetNextWake} ELSE {})
    \cup (IF WdtWatching THEN {wdtFed + WdtTimeout} ELSE {})

\* time passes while every task sleeps or waits for a mutex, up to the next
\* instant at which something happens
TickSys ==
  /\ \A t \in Tasks : ~Ready(t)
  /\ \E next \in SysDeadlines :
       /\ \A other \in SysDeadlines : next <= other
       /\ next > now
       /\ next <= MaxSysTime
       /\ now' = next
  /\ UNCHANGED <<encVars, script, feed, uart, lastArrival, gapExceeded, gaps, ctlVars, scanVars,
                 boxVars, errVars, histVars, netVars>>

\* what the scanner module sends while the three tasks are followed
SysScripts == {<<>>, <<65>>}

InitSys ==
  /\ InitCommon
  /\ script \in SysScripts
  /\ feed = script
  /\ encodeArg = <<>>
  /\ encodedString = <<>>

\* the network task's steps that can happen beside the real WiFiEvent:
\* networkConnected becomes true only in the GOT_IP case, which then calls
\* recordError with serialMutex held and never gives the mutex back, so
\* initEthernet never gets past its report line. The steps left out are
\* those behind a completed initEthernet or a true networkConnected seen in
\* the loop; NetworkWithinReach states that they are never asked for
NetworkSysStep ==
  \/ NtSubscribe \/ NtStartPrint \/ NtBootCheck \/ NtLoopInit \/ NtLoopTop
  \/ NtStatusPrint \/ NtFailCheck \/ NtLinkCheck \/ NtReconnectPrint \/ NtReconnectCheck
  \/ NtPassEnd \/ NtHbCheck \/ NtBoxCheck \/ NtSleep \/ NtWake
  \/ IePrint \/ IeBegin \/ IeFailPrint \/ IeReturn \/ IePrint2 \/ IeWait \/ IeDot
  \/ IeDelay \/ IeReport
  \/ RecordErrorStep("network")

\* the positions of the network task whose steps NetworkSysStep leaves out
BeyondReach ==
  {"hb_enter", "hb_drain", "hb_give_error", "hb_put", "hb_book", "hb_give_serial",
   "sb_enter", "sb_put", "sb_book", "sb_give_serial",
   "rs_print", "rs_pins", "rs_delay", "rs_return",
   "nt_trig_print", "nt_trig_reset", "nt_trig_after",
   "nt_box_take", "nt_box_clear", "nt_box_give",
   "nt_boot_after", "nt_hb_after", "nt_reconnect_after", "ie_give_serial"}

NetworkWithinReach == pc["network"] \notin BeyondReach

NextSys ==
  \/ ScannerStep \/ NetworkSysStep \/ EventStep
  \/ UartArrive \/ EvPost \/ TickSys \/ WatchdogReboot

SpecSys == InitSys /\ [][NextSys]_vars

\* the scheduler runs every task that can run, time passes, and the watchdog
\* timer fires when it has run out
SpecSysFair ==
  /\ SpecSys
  /\ WF_vars(ScannerStep)
  /\ WF_vars(NetworkSysStep)
  /\ WF_vars(EventStep)
  /\ WF_vars(TickSys)
  /\ WF_vars(WatchdogReboot)

(***************************************************************************)
(* The scanner task and the network task together, the driver's events     *)
(* delivered as writes of networkConnected, from the start to the first    *)
(* supervision pass                                                        *)
(***************************************************************************)
\* the two tasks are followed up to this time, the last instant before the
\* first supervision pass is due
MaxPairTime == 15000

\* one scan, or two scans with a pause between them
PairScripts == {<<65>>, <<65, 66>>}

InitPair ==
  /\ InitCommon
  /\ script \in PairScripts
  /\ feed = script
  /\ encodeArg = <<>>
  /\ encodedString = <<>>

\* the network task's steps up to MaxPairTime: no supervision pass and no
\* periodic heartbeat is due yet; PairWithinReach states that the steps left
\* out are never asked for
NetworkPairStep ==
  \/ NtSubscribe \/ NtStartPrint \/ NtBootCheck \/ NtBootAfter \/ NtLoopInit \/ NtLoopTop
  \/ NtHbCheck \/ NtBoxCheck \/ NtBoxTake \/ NtBoxClear \/ NtBoxGive \/ NtSleep \/ NtWake
  \/ InitEthernetStep \/ SendHeartbeatStep \/ SendBarcodeDataStep
  \/ RecordErrorStep("network")

PairWithinReach ==
  pc["network"] \notin
    {"nt_status_print", "nt_fail_check", "nt_trig_print", "nt_trig_reset", "nt_trig_after",
     "nt_link_check", "nt_reconnect_print", "nt_reconnect_check", "nt_reconnect_after",
     "nt_pass_end", "nt_hb_after", "rs_print", "rs_pins", "rs_delay", "rs_return"}

\* time passes while both tasks sleep or wait for a mutex, up to the next
\* instant at which something happens
TickPair ==
  /\ \A t \in Tasks : ~Ready(t)
  /\ \E next \in SysDeadlines :
       /\ \A other \in SysDeadlines : next <= other
       /\ next > now
       /\ next <= MaxPairTime
       /\ now' = next
  /\ UNCHANGED <<encVars, script, feed, uart, lastArrival, gapExceeded, gaps, ctlVars, scanVars,
                 boxVars, errVars, histVars, netVars>>

NextPair ==
  ScannerStep \/ NetworkPairStep \/ UartArrive \/ LinkUp \/ LinkDown \/ TickPair

SpecPair == InitPair /\ [][NextPair]_vars

\* the scheduler runs each of the two tasks whenever it can run, and time
\* passes
SpecPairFair ==
  /\ SpecPair
  /\ WF_vars(ScannerStep)
  /\ WF_vars(NetworkPairStep)
  /\ WF_vars(TickPair)

(***************************************************************************)
(* urlEncode on its own: one call per argument                             *)
(***************************************************************************)
\* control characters below and from 0x10, space, '/', an unreserved mark,
\* letters, a digit and DEL
EncodeBytes == {1, 10, 16, 32, 47, 45, 57, 65, 122, 127}
EncodeArgs == SeqsUpTo(EncodeBytes, MaxEncodeLen)

UrlEncodeCall ==
  /\ encodeArg # <<>>
  /\ encodedString = <<>>
  /\ encodedString' = urlEncode(encodeArg)
  /\ UNCHANGED <<encodeArg, simVars, envVars, ctlVars, scanVars, boxVars, errVars, histVars,
                 netVars>>

InitEncode ==
  /\ InitCommon
  /\ script = <<>>
  /\ feed = <<>>
  /\ encodeArg \in EncodeArgs
  /\ encodedString = <<>>

NextEncode == UrlEncodeCall

SpecEncode == InitEncode /\ [][NextEncode]_vars

(***************************************************************************)
(* simulate-node/server.js: the collector simulator                        *)
(***************************************************************************)
\* requests followed
MaxRequests == 3

\* the names declared with const or let at the top level of server.js, in
\* the order of the file: the file holds the program twice
TopLevelDeclarations ==
  <<"express", "bodyParser", "morgan", "fs", "path", "app", "port", "dataDir",
    "readers", "lastApiCall",
    "express", "bodyParser", "morgan", "fs", "path", "app", "port", "dataDir",
    "readers">>

\* a script compiles only if no name is declared twice by const or let in one
\* scope; otherwise node stops with a SyntaxError before running any line
ScriptCompiles ==
  \A i, j \in 1..Len(TopLevelDeclarations) :
    i # j => TopLevelDeclarations[i] # TopLevelDeclarations[j]

\* req.query.data: absent, or the string given
QueryData == {NoData, <<>>, <<65>>, <<66>>, <<65, 66>>}

\* if (!data): undefined and the empty string
Falsy(data) == data = NoData \/ data = <<>>

\* what a client gets when nothing listens on the port
NoAnswer == 0

\* node server.js
SimStart ==
  /\ simPhase = "off"
  /\ simPhase' = IF ScriptCompiles THEN "listening" ELSE "failed"
  /\ UNCHANGED <<encodeArg, encodedString, qrLog, lastApiCall, simReplies, envVars, ctlVars,
                 scanVars, boxVars, errVars, histVars, netVars>>

\* PUT /api/node/recordQRCode?...&data=...: the handler, when the server runs
SimPutRecordQRCode ==
  \E data \in QueryData :
    /\ simPhase # "off"
    /\ Len(simReplies) < MaxRequests
    /\ IF simPhase = "listening"
         THEN IF Falsy(data)
                THEN /\ simReplies' = Append(simReplies, [data |-> data, status |-> 400])
                     /\ UNCHANGED <<qrLog, lastApiCall>>
                ELSE /\ lastApiCall' = [endpoint |-> "recordQRCode", data |-> data]
                     /\ qrLog' = Append(qrLog, data)
                     /\ simReplies' = Append(simReplies, [data |-> data, status |-> 200])
         ELSE /\ simReplies' = Append(simReplies, [data |-> data, status |-> NoAnswer])
              /\ UNCHANGED <<qrLog, lastApiCall>>
    /\ UNCHANGED <<encodeArg, encodedString, simPhase, envVars, ctlVars, scanVars, boxVars,
                   errVars, histVars, netVars>>

InitSim ==
  /\ InitCommon
  /\ script = <<>>
  /\ feed = <<>>
  /\ encodeArg = <<>>
  /\ encodedString = <<>>

NextSim == SimStart \/ SimPutRecordQRCode

SpecSim == InitSim /\ [][NextSim]_vars

(***************************************************************************)
(* Properties of the capture / framing engine                              *)
(***************************************************************************)
Last(s) == s[Len(s)]
StartsWithMarker(msg) == Len(msg) >= 2 /\ msg[1] = 2 /\ msg[2] = 0
\* processBarcode holds its copy of the flushed message
InProcessBarcode ==
  pc["scanner"] \in {"pb_give_buf", "pb_take_serial", "pb_take_mailbox",
                     "pb_give_mailbox", "pb_give_serial"}
AfterExtraction ==
  pc["scanner"] \in {"pb_take_mailbox", "pb_give_mailbox", "pb_give_serial"}

\* C1: the mailbox holds one payload, the one published last: after any
\* number of publishes its data is the last payload published, and it is
\* marked new as long as the network task has not cleared the flag.
C1_LastWriteWins ==
  publishLog # <<>> =>
    /\ barcodeData.data = Last(publishLog)
    /\ ~drained => barcodeData.newData

\* a second, different payload was published while the first was still pending
C1_Witness ==
  /\ Len(publishLog) = 2
  /\ publishLog[1] # publishLog[2]
  /\ ~drained
  /\ barcodeData.newData
  /\ barcodeData.data = publishLog[2]

\* C2 (as claimed): for every flushed message that does not begin with
\* 0x02 0x00, what processBarcode extracted is the message filtered to
\* 0x20..0x7E, in order.
C2_ExtractionIsFilter ==
  (AfterExtraction /\ ~StartsWithMarker(localBuffer)) =>
    /\ barcodeBuffer = SelectSeq(localBuffer, Printable)
    /\ barcodeLen = Len(SelectSeq(localBuffer, Printable))

\* C3: while processBarcode works on a flushed message that begins with
\* 0x02 0x00, no step of the scanner task changes barcodeData.
C3_MarkerNoWrite ==
  [][(InProcessBarcode /\ StartsWithMarker(localBuffer)
        /\ pc'["scanner"] # pc["scanner"]) => barcodeData' = barcodeData]_vars

\* a marker message with printable bytes has been processed while an earlier
\* payload was pending, and the mailbox still holds that payload
C3_Witness ==
  /\ Len(flushLog) = 2
  /\ StartsWithMarker(flushLog[2])
  /\ ExtractPrintable(flushLog[2]) # <<>>
  /\ localBuffer = flushLog[2]
  /\ pc["scanner"] = "sc_delay"
  /\ publishLog = <<ExtractPrintable(flushLog[1])>>
  /\ barcodeData = [data |-> publishLog[1], length |-> 1, newData |-> TRUE]

\* scenario A: "ABC123\r" has arrived as one burst and 150 ms have passed
ScenarioAReceived ==
  /\ script = ScenarioA
  /\ feed = <<>>
  /\ ~gapExceeded
  /\ now - lastArrival >= 150

\* C7 (as claimed): after scenario A the mailbox holds "ABC123\r", length 7.
C7_MailboxHoldsCR ==
  ScenarioAReceived => (barcodeData.data = ScenarioA /\ barcodeData.length = 7)

\* C7 (amended): after scenario A there has been exactly one flush, of the
\* seven bytes, and one publish; the mailbox holds "ABC123", length 6, marked
\* new until the network task clears the flag.
C7_MailboxHoldsPrintable ==
  ScenarioAReceived =>
    /\ flushLog = <<ScenarioA>>
    /\ publishLog = <<<<65, 66, 67, 49, 50, 51>>>>
    /\ barcodeData.data = <<65, 66, 67, 49, 50, 51>>
    /\ barcodeData.length = 6
    /\ barcodeData.newData \/ drained

C7_Witness ==
  /\ ScenarioAReceived
  /\ gaps = 1
  /\ barcodeData = [data |-> <<65, 66, 67, 49, 50, 51>>, length |-> 6, newData |-> TRUE]

(***************************************************************************)
(* Properties of the locks                                                 *)
(***************************************************************************)
LocksHeld(t) == {m \in Mutexes : Holds(t, m)}

\* C8 (as claimed): in every reachable state no task holds two of the four
\* mutexes at the same time.
C8_AtMostOneLock == \A t \in Tasks : Cardinality(LocksHeld(t)) <= 1

\* C9 (as claimed): no task ever waits forever on a mutex; in particular no
\* task waits, with portMAX_DELAY, for a mutex that it holds itself.
C9_NoTaskWaitsForever == \A t \in Tasks : ~SelfBlocked(t)

InSendHeartbeat ==
  pc["network"] \in {"hb_enter", "hb_drain", "hb_give_error", "hb_put", "hb_book",
                     "hb_give_serial"}

\* the step of sendHeartbeat that evaluates the response
HeartbeatCounted ==
  /\ pc["network"] = "hb_book"
  /\ pc'["network"] \in {"hb_give_serial", "re_take_error"}

\* C4: the step of sendHeartbeat that evaluates the response sets
\* consecutiveFailedHeartbeats to 0 when the code is in [200,300) and to its
\* previous value plus 1 for every other code; no other step taken inside
\* sendHeartbeat changes the counter.
C4_CounterFollowsResponse ==
  [][/\ HeartbeatCounted =>
          consecutiveFailedHeartbeats' =
            IF httpResponseCode >= 200 /\ httpResponseCode < 300
              THEN 0 ELSE consecutiveFailedHeartbeats + 1
     /\ (InSendHeartbeat /\ ~HeartbeatCounted /\ pc'["network"] # "nt_start") =>
          consecutiveFailedHeartbeats' = consecutiveFailedHeartbeats]_vars

\* a heartbeat has ended with a transport failure and has been counted
C4_Witness ==
  /\ pc["network"] = "re_take_error"
  /\ Head(stack["network"]) = "hb_give_serial"
  /\ httpResponseCode = -1
  /\ consecutiveFailedHeartbeats = 1

ReportingFrom(ret) ==
  /\ pc["network"] \in {"re_take_error", "re_give_error", "re_take_serial"}
  /\ stack["network"] # <<>>
  /\ Head(stack["network"]) = ret

IsPrefix(a, b) == Len(a) <= Len(b) /\ SubSeq(b, 1, Len(a)) = a

Ellipsis == <<".", ".", ".">>

AppendStep(t) == pc[t] = "re_take_error" /\ pc'[t] = "re_give_error"

\* the queue with the separator and the formatted annotation of task t added
Joined(t) ==
  (IF Len(pendingErrorMessages) > 0 THEN pendingErrorMessages \o <<";", " ">>
   ELSE pendingErrorMessages) \o FormattedError(errArg[t])

\* s occurs in q as a run of consecutive characters
OccursIn(s, q) ==
  \E i \in 0..(Len(q) - Len(s)) : SubSeq(q, i + 1, i + Len(s)) = s

\* C14 (as claimed): when an append would exceed the cap, the annotation just
\* recorded is retained in the queue and the queue is marked with an ellipsis.
C14_NewestRetained ==
  [][\A t \in Tasks :
       (AppendStep(t) /\ Len(Joined(t)) > MaxErrorLength) =>
         /\ OccursIn(FormattedError(errArg[t]), pendingErrorMessages')
         /\ OccursIn(Ellipsis, pendingErrorMessages')]_vars

\* C14 (amended): when an append would exceed the cap, the queue keeps its
\* first MAX_ERROR_LENGTH - 3 characters, the oldest content, and ends with an
\* ellipsis; what is cut off is the end of the queue, where the annotation
\* just recorded stands.
C14_OldestRetained ==
  [][\A t \in Tasks :
       (AppendStep(t) /\ Len(Joined(t)) > MaxErrorLength) =>
         /\ Len(pendingErrorMessages') = MaxErrorLength
         /\ IsPrefix(Take(pendingErrorMessages, MaxErrorLength - 3), pendingErrorMessages')
         /\ IsPrefix(Take(pendingErrorMessages', MaxErrorLength - 3), Joined(t))
         /\ SubSeq(pendingErrorMessages', MaxErrorLength - 2, MaxErrorLength) = Ellipsis]_vars

\* the third annotation has been appended to two that filled the queue: the
\* first is still there, the third is not
C14_Witness ==
  /\ pc["network"] = "re_give_error"
  /\ errArg["network"] = <<"b">>
  /\ pendingErrorMessages = <<"S", ";", " ">> \o Ellipsis

(***************************************************************************)
(* Properties of urlEncode                                                 *)
(***************************************************************************)
\* the value of a hexadecimal digit in either case, -1 for any other character
HexValue(ch) ==
  IF ch >= 48 /\ ch <= 57 THEN ch - 48
  ELSE IF ch >= 65 /\ ch <= 70 THEN ch - 55
  ELSE IF ch >= 97 /\ ch <= 102 THEN ch - 87
  ELSE -1

\* standard percent-decoding: '%' followed by two hexadecimal digits stands
\* for the byte with that value, every other character for itself
RECURSIVE PercentDecode(_)
PercentDecode(e) ==
  IF e = <<>> THEN <<>>
  ELSE IF Head(e) = 37 /\ Len(e) >= 3 /\ HexValue(e[2]) >= 0 /\ HexValue(e[3]) >= 0
         THEN <<16 * HexValue(e[2]) + HexValue(e[3])>> \o PercentDecode(SubSeq(e, 4, Len(e)))
         ELSE <<Head(e)>> \o PercentDecode(Tail(e))

\* C15 (as claimed): decoding the percent-encoded form of any ASCII string
\* gives the string back.
C15_RoundTrip ==
  encodedString # <<>> => PercentDecode(encodedString) = encodeArg

\* one digit, '0'..'9', 'A'..'F'
UpperHexDigit(d) == IF d < 10 THEN 48 + d ELSE 55 + d

\* the encoding as claimed: '%' and two upper-case hexadecimal digits
RECURSIVE ClaimedEncoding(_)
ClaimedEncoding(str) ==
  IF str = <<>> THEN <<>>
  ELSE (IF PassesThrough(Head(str)) THEN <<Head(str)>>
        ELSE <<37, UpperHexDigit(Head(str) \div 16), UpperHexDigit(Head(str) % 16)>>)
       \o ClaimedEncoding(Tail(str))

\* C16 (as claimed): alphanumerics and - _ . ~ are left unchanged and every
\* other byte becomes '%' followed by two upper-case hexadecimal digits.
C16_EncodingShape ==
  encodedString # <<>> => encodedString = ClaimedEncoding(encodeArg)

(***************************************************************************)
(* Properties of the buffers and of the hand-over between the tasks        *)
(***************************************************************************)
\* C18 (as claimed): every payload that processBarcode publishes is taken by
\* the network task for a submission; so a second payload is never published
\* over one the network task has not taken.
C18_EveryPublishSubmitted == Len(publishLog) >= 2 => drained

\* C19: bufferIndex never exceeds sizeof(rawBuffer) - 1, and the copy made by
\* a flush, with its terminator, fits localBuffer.
C19_BufferWithinCapacity ==
  /\ bufferIndex >= 0
  /\ bufferIndex <= RawBufferSize - 1
  /\ Len(localBuffer) + 1 <= LocalBufferSize

\* rawBuffer was filled to its limit with bytes still waiting in the UART, and
\* has been flushed
C19_Witness ==
  /\ pc["scanner"] = "pb_take_serial"
  /\ Len(localBuffer) = RawBufferSize - 1
  /\ uart # <<>>
  /\ rawBuffer = <<>>

\* C20 (as claimed): after any publish the payload and barcodeData.length are
\* at most sizeof(barcodeData.data) - 1, the length is the number of bytes
\* stored, and barcodeBuffer has not been written past its end.
C20_PayloadWithinCap ==
  publishLog # <<>> =>
    /\ Len(barcodeData.data) <= BarcodeDataSize - 1
    /\ barcodeData.length <= BarcodeDataSize - 1
    /\ barcodeData.length = Len(barcodeData.data)
    /\ ~stackSmashed

\* the device has just restarted: the network task is at its first line and
\* has not subscribed to the watchdog yet
Booting == pc["network"] = "nt_start" /\ ~wdtArmed

\* one of the scanner task, the network task and the event callback is
\* permanently blocked
Hang == \E t \in Tasks : PermanentlyBlocked(t)

\* after a hang the network task blocks at its next console line, at the
\* latest at the next status line of its loop, and the watchdog runs out
\* 60 s after the last reset before that
HangMargin == WdtTimeout + StatusCheckInterval + LinkPollDelay

\* C17 whenever the scanner task, the network task or the event callback is
\* permanently blocked, the network task stops resetting the task watchdog
\* and the device restarts: every hang that begins early enough for the
\* watchdog to run out within the time followed is followed by a restart,
\* and the network task never gets to the steps left out beside the real
\* event callback
C17_HangLeadsToReboot ==
  /\ []NetworkWithinReach
  /\ (Hang /\ now <= MaxSysTime - HangMargin) ~> Booting

\* the event callback and the scanner task are both permanently blocked, the
\* network task is not the cause, and the watchdog has run out
C17_Witness ==
  /\ PermanentlyBlocked("event")
  /\ PermanentlyBlocked("scanner")
  /\ mutex["serialMutex"] = "event"
  /\ WdtWatching
  /\ now - wdtFed >= WdtTimeout


\* the messages of a log one after the other
RECURSIVE Flatten(_)
Flatten(log) == IF log = <<>> THEN <<>> ELSE Head(log) \o Flatten(Tail(log))

\* the bytes read from Serial1 since startup: what the scanner module has
\* sent, less what still waits in the UART
BytesRead == SubSeq(script, 1, Len(script) - Len(feed) - Len(uart))

\* C21 framing is lossless: the messages flushed so far, in flush order,
\* followed by the contents of rawBuffer are the bytes read from the serial
\* port since startup
C21_FramingLossless == Flatten(flushLog) \o rawBuffer = BytesRead

\* a message has been flushed because rawBuffer was full before the burst
\* ended, and the rest of the burst is in rawBuffer
C21_Witness ==
  /\ Len(flushLog) = 1
  /\ Len(flushLog[1]) = RawBufferSize - 1
  /\ rawBuffer # <<>>
  /\ uart = <<>>
  /\ feed = <<>>


\* a step of the task watchdog's restart, which starts a new execution
RestartStep == wdtArmed /\ ~wdtArmed'

HandlesEvent(l) == pc["event"] = l /\ pc'["event"] # l

\* C23 when the driver delivers ARDUINO_EVENT_ETH_GOT_IP, networkConnected
\* becomes true and lastNetworkActivity is set to the time of the event
C23_GotIpTimestampsActivity ==
  [][HandlesEvent("ev_got_ip") => networkConnected' /\ lastNetworkActivity' = now]_vars


\* the data of the requests of a history that carried a non-empty data
\* parameter, in order
RECURSIVE Recorded(_)
Recorded(replies) ==
  IF replies = <<>> THEN <<>>
  ELSE IF Falsy(Head(replies).data) THEN Recorded(Tail(replies))
       ELSE <<Head(replies).data>> \o Recorded(Tail(replies))

C25_BufferLockAlone ==
  \A t \in Tasks :
    Holds(t, "bufferMutex") =>
      /\ ~Holds(t, "serialMutex")
      /\ ~Holds(t, "barcodeMutex")
      /\ WaitsFor(t) \notin {"serialMutex", "barcodeMutex"}

\* processBarcode has copied a message out and still holds bufferMutex
C25_Witness ==
  /\ pc["scanner"] = "pb_give_buf"
  /\ Holds("scanner", "bufferMutex")
  /\ localBuffer # <<>>
  /\ rawBuffer = <<>>


\* everything sent so far came as one burst that fits into rawBuffer: no two
\* arrivals more than BARCODE_TIMEOUT apart, fewer bytes than the buffer holds
OneBurstWithRoom == ~gapExceeded /\ Len(script) - Len(feed) <= RawBufferSize - 1

\* C26 a flush happens only when rawBuffer holds data and more than
\* BARCODE_TIMEOUT has passed since the last byte was received: no flushed
\* message is empty, the bytes of one burst that fits into the buffer are
\* never in two messages, and the step that flushes finds data and silence
C26_FlushOnlyAfterSilence ==
  /\ [](\A i \in 1..Len(flushLog) : flushLog[i] # <<>>)
  /\ [](OneBurstWithRoom =>
          \/ flushLog = <<>>
          \/ Len(flushLog) = 1 /\ rawBuffer = <<>> /\ uart = <<>>)
  /\ [][flushLog' # flushLog =>
          /\ bufferIndex > 0
          /\ newDataAvailable
          /\ now - lastDataTime > BARCODE_TIMEOUT]_vars

\* a burst of several bytes that arrived at different times has been flushed
\* as one message
C26_Witness ==
  /\ Len(script) >= 2
  /\ gaps >= 1
  /\ ~gapExceeded
  /\ flushLog = <<script>>


\* the scanner loop decides whether to flush
FlushDecision == pc["scanner"] = "sc_flush_check" /\ pc'["scanner"] # "sc_flush_check"

\* C27 when rawBuffer is full while serial bytes are still available, the
\* loop flushes at once, without waiting for the silence
C27_FullBufferForcesFlush ==
  [][(FlushDecision /\ bufferIndex = RawBufferSize - 1 /\ uart # <<>>)
       => pc'["scanner"] = "pb_take_buf"]_vars


\* a step of WiFiEvent while it handles ARDUINO_EVENT_ETH_DISCONNECTED or
\* ARDUINO_EVENT_ETH_STOP, its call of recordError included
DisconnectStep ==
  /\ pc'["event"] # pc["event"]
  /\ ~RestartStep
  /\ \/ pc["event"] \in {"ev_disconnected", "ev_stop"}
     \/ errArg["event"] \in {<<"d">>, <<"s">>}

\* resetEthernet pulses the reset pin, or initEthernet is entered
RecoveryStep ==
  \/ hwResets' # hwResets
  \/ pc["network"] # "ie_print" /\ pc'["network"] = "ie_print"

\* C28 handling a disconnect or stop event changes only networkConnected,
\* which becomes false, and the error queue: no hardware reset, no
\* re-initialisation, no change of consecutiveFailedHeartbeats,
\* lastNetworkActivity or the mailbox; resets and re-initialisations are
\* steps of the network task, at its start and in its supervision pass
C28_DisconnectOnlyMarksLinkDown ==
  /\ [][DisconnectStep =>
          /\ ~networkConnected'
          /\ UNCHANGED <<scanVars, boxVars, histVars, ethStarted, hbVars, loopVars, httpVars,
                         wdtVars>>]_vars
  /\ [][RecoveryStep =>
          /\ pc["network"] \in {"nt_start_print", "nt_reconnect_print", "rs_pins", "rs_delay"}
          /\ pc'["event"] = pc["event"]]_vars

\* WiFiEvent has handled a disconnect event as far as it gets
C28_Witness ==
  /\ errArg["event"] = <<"d">>
  /\ pc["event"] = "re_take_serial"
  /\ ~networkConnected
  /\ ethStarted


\* the network task is inside initEthernet
InInitEthernet ==
  pc["network"] \in {"ie_print", "ie_begin", "ie_fail_print", "ie_print2", "ie_wait",
                     "ie_dot", "ie_delay", "ie_report", "ie_give_serial", "ie_return"}

\* the longest the network task takes from any point of its loop to the link
\* check of its next supervision pass: the rest of the status interval, a
\* heartbeat and a submission that time out, a reset pulse, a loop delay
ReinitMargin ==
  StatusCheckInterval + HttpTimeout + HttpTimeout + ResetPulse + NetworkLoopDelay

\* C29 a supervision pass that finds the link down re-initialises the
\* interface in that pass, and calls sendHeartbeat before the pass ends if
\* the link is up after the re-initialisation; so while the link stays down
\* and the network task keeps running, a re-initialisation attempt follows
C29_LinkDownLeadsToReinit ==
  /\ [][(pc["network"] = "nt_link_check" /\ pc'["network"] # "nt_link_check"
           /\ ~RestartStep /\ ~networkConnected)
          => pc'["network"] = "nt_reconnect_print"]_vars
  /\ [][(pc["network"] = "nt_reconnect_print" /\ pc'["network"] # "nt_reconnect_print"
           /\ ~RestartStep)
          => pc'["network"] = "ie_print" /\ Head(stack'["network"]) = "nt_reconnect_check"]_vars
  /\ [][(pc["network"] = "nt_reconnect_check" /\ pc'["network"] # "nt_reconnect_check"
           /\ ~RestartStep /\ networkConnected)
          => pc'["network"] = "hb_enter" /\ Head(stack'["network"]) = "nt_reconnect_after"]_vars
  /\ (~networkConnected /\ hwResets < MaxResets /\ now <= MaxNetTime - ReinitMargin)
       ~> (InInitEthernet \/ networkConnected \/ Blocked("network") \/ Booting)

\* the link went down while the network task ran its loop, and the next
\* supervision pass has called initEthernet
C29_Witness ==
  /\ pc["network"] = "ie_begin"
  /\ stack["network"] = <<"nt_reconnect_check">>
  /\ ~networkConnected
  /\ linkChanges = 2


\* the network task starts an HTTP PUT: http.PUT in sendHeartbeat or in
\* sendBarcodeData
IssuesRequest ==
  /\ pc["network"] \notin {"hb_put", "sb_put"}
  /\ pc'["network"] \in {"hb_put", "sb_put"}

ClearsPending ==
  /\ pc["network"] = "nt_box_clear"
  /\ barcodeData.newData
  /\ ~barcodeData'.newData

\* sendBarcodeData issued its request and booked a 2xx response just now
SubmittedNow == putData # <<>> /\ lastNetworkActivity = now

EntersRecordError(t) == pc[t] = "re_take_error"

\* C32 recordError, which takes serialMutex for its console line, is never
\* called by a task that holds serialMutex at the time of the call
C32_RecordErrorCalledWithoutSerial ==
  \A t \in Tasks : EntersRecordError(t) => ~Holds(t, "serialMutex")

HardwareReset == hwResets' = hwResets + 1

NoLockWait == \A t \in Tasks : ~Blocked(t)

InSubmission == Holds("network", "barcodeMutex")

PairMargin == LinkPollDelay + NetworkLoopDelay

\* a payload is pending and the link is up, early enough for the network task
\* to wake up within the time followed
PendingWithLink ==
  /\ barcodeData.newData
  /\ networkConnected
  /\ now <= MaxPairTime - PairMargin

PublishStep == pc["scanner"] = "pb_take_mailbox" /\ pc'["scanner"] = "pb_give_mailbox"

====
